---- MODULE Spec2Model ----
(***************************************************************************)
(* A model of schemadoc's schema resolution core: example synthesis with   *)
(* its reference-activation set, definition path building, and the         *)
(* deterministic orderings.  Strings are TLA+ strings read character by    *)
(* character (SubSeq), JSON values are tagged records, Go maps are         *)
(* functions over a set of keys.                                           *)
(***************************************************************************)
EXTENDS Integers, Sequences, FiniteSets, TLC

VARIABLES
    pc,              \* position of the run: "call", "run", "sort", "done", "error"
    call,            \* the entry point and its arguments, fixed at Init
    result,          \* the value the entry point returned
    err,             \* the error the entry point returned ("" = nil)
    stack,           \* exampleBuilder call stack, innermost frame last
    activeRefs,      \* exampleBuilder.activeRefs: reference string -> count
    ret,             \* value returned by the frame that was popped last
    rootNode,        \* GenerateExampleYAML: the yaml.Node tree of the example
    paths,           \* buildDefinitionPaths: definition -> list of paths
    seen,            \* buildDefinitionPaths: set of <<target, prefix>> pairs
    queue,           \* buildDefinitionPaths: BFS queue of definitionPathState
    defOrder,        \* buildRenderView: defOrder, its first entry the root definition
    view,            \* buildRenderView: view.Definitions built so far
    previous,        \* what an earlier call on the same input returned
    parked,          \* the locals of a second call in flight that is not running now
    runner           \* cliRunner: its stdout and stderr, and the exit code of run

builderVars == <<stack, activeRefs, ret, rootNode>>
renderVars == <<paths, seen, queue, defOrder, view>>
vars == <<pc, call, result, err, previous, parked, runner, builderVars, renderVars>>

-----------------------------------------------------------------------------
(* Bounds of the model.                                                    *)

\* longest required list drawn for the ordering functions
MaxRequired == 3

-----------------------------------------------------------------------------
(* Go strings.                                                             *)

Char(s, i) == SubSeq(s, i, i)

\* printable ASCII in byte order: 32 (space) to 95 (_), and 97 (a) to 126 (~)
AsciiLow == " !\"#$%&'()*+,-./0123456789:;<=>?@ABCDEFGHIJKLMNOPQRSTUVWXYZ[\\]^_"
AsciiHigh == "abcdefghijklmnopqrstuvwxyz{|}~"

UpperCase == "ABCDEFGHIJKLMNOPQRSTUVWXYZ"
LowerCase == "abcdefghijklmnopqrstuvwxyz"

\* byte value of each character
AsciiCode ==
    [c \in {"\t", "\n"} \cup {Char(AsciiLow, i) : i \in 1..Len(AsciiLow)}
                          \cup {Char(AsciiHigh, i) : i \in 1..Len(AsciiHigh)} |->
        IF c = "\t" THEN 9
        ELSE IF c = "\n" THEN 10
        ELSE IF \E i \in 1..Len(AsciiLow) : Char(AsciiLow, i) = c
             THEN 31 + (CHOOSE i \in 1..Len(AsciiLow) : Char(AsciiLow, i) = c)
             ELSE 96 + (CHOOSE i \in 1..Len(AsciiHigh) : Char(AsciiHigh, i) = c)]

Code(c) == AsciiCode[c]

MinOf(S) == CHOOSE x \in S : \A y \in S : x <= y
MaxOf(S) == CHOOSE x \in S : \A y \in S : y <= x

\* a < b in Go's byte-wise string order, compared from position i on
RECURSIVE StrLessFrom(_, _, _)
StrLessFrom(a, b, i) ==
    IF i > Len(a) THEN i <= Len(b)
    ELSE IF i > Len(b) THEN FALSE
    ELSE IF Char(a, i) = Char(b, i) THEN StrLessFrom(a, b, i + 1)
    ELSE Code(Char(a, i)) < Code(Char(b, i))

StrLess(a, b) == StrLessFrom(a, b, 1)

IsSpace(c) == c \in {" ", "\t", "\n"}

TrimSpace(s) ==
    IF s = "" THEN ""
    ELSE IF ~IsSpace(Char(s, 1)) /\ ~IsSpace(Char(s, Len(s))) THEN s
    ELSE LET keep == {i \in 1..Len(s) : ~IsSpace(Char(s, i))}
         IN  IF keep = {} THEN "" ELSE SubSeq(s, MinOf(keep), MaxOf(keep))

LowerChar(c) ==
    IF \E i \in 1..Len(UpperCase) : Char(UpperCase, i) = c
    THEN Char(LowerCase, CHOOSE i \in 1..Len(UpperCase) : Char(UpperCase, i) = c)
    ELSE c

RECURSIVE ToLower(_)
ToLower(s) == IF s = "" THEN "" ELSE LowerChar(Char(s, 1)) \o ToLower(Tail(s))

HasPrefix(s, p) == Len(s) >= Len(p) /\ SubSeq(s, 1, Len(p)) = p

TrimPrefix(s, p) == IF HasPrefix(s, p) THEN SubSeq(s, Len(p) + 1, Len(s)) ELSE s

\* strings.Split(s, sep) for a one-character separator
RECURSIVE Split(_, _)
Split(s, sep) ==
    LET at == {i \in 1..Len(s) : Char(s, i) = sep}
    IN  IF at = {} THEN <<s>>
        ELSE LET i == MinOf(at)
             IN  <<SubSeq(s, 1, i - 1)>> \o Split(SubSeq(s, i + 1, Len(s)), sep)

\* strings.ReplaceAll(s, old, new) for a two-character old
RECURSIVE ReplaceAll(_, _, _)
ReplaceAll(s, old, new) ==
    IF Len(s) < 2 THEN s
    ELSE IF SubSeq(s, 1, 2) = old THEN new \o ReplaceAll(SubSeq(s, 3, Len(s)), old, new)
    ELSE Char(s, 1) \o ReplaceAll(Tail(s), old, new)

Range(seq) == {seq[i] : i \in 1..Len(seq)}

Contains(seq, x) == \E i \in 1..Len(seq) : seq[i] = x

\* sort.Strings on a list
RECURSIVE SortStrings(_)
SortStrings(seq) ==
    IF seq = <<>> THEN <<>>
    ELSE LET rest == SortStrings(Tail(seq))
             x == Head(seq)
             k == Cardinality({i \in 1..Len(rest) : StrLess(rest[i], x)})
         IN  SubSeq(rest, 1, k) \o <<x>> \o SubSeq(rest, k + 1, Len(rest))

\* every order in which a Go range statement may visit the keys S of a map
RECURSIVE PermsOf(_)
PermsOf(S) ==
    IF S = {} THEN {<<>>}
    ELSE UNION {{<<x>> \o p : p \in PermsOf(S \ {x})} : x \in S}

\* all lists over S of length at most n
RECURSIVE SeqsUpTo(_, _)
SeqsUpTo(S, n) ==
    IF n = 0 THEN {<<>>}
    ELSE LET shorter == SeqsUpTo(S, n - 1)
         IN  shorter \cup {Append(q, x) : q \in {r \in shorter : Len(r) = n - 1}, x \in S}

-----------------------------------------------------------------------------
(* Decoded JSON values (Go's any): nil is JSON null.                       *)

JNull == [k |-> "null"]
JBool(b) == [k |-> "bool", v |-> b]
JNum(n) == [k |-> "num", v |-> n]
JStr(s) == [k |-> "str", v |-> s]
JArr(a) == [k |-> "arr", v |-> a]
JObj(o) == [k |-> "obj", v |-> o]

EmptyMap == [x \in {} |-> JNull]

\* object[key] on a Go map: nil when the key is missing
Get(o, key) == IF key \in DOMAIN o THEN o[key] ELSE JNull

\* the map without one key
Without(o, key) == [x \in (DOMAIN o) \ {key} |-> o[x]]

-----------------------------------------------------------------------------
(* Schema value model: a node is a boolean schema, an object schema, or    *)
(* the zero value (neither).                                               *)

ZeroSchema == JNull

\* toSchemaValue(raw): ok only for a boolean or an object
SchemaOk(raw) == raw.k \in {"bool", "obj"}
toSchemaValue(raw) == IF SchemaOk(raw) THEN raw ELSE ZeroSchema

IsObject(node) == node.k = "obj"

asString(v) == IF v.k = "str" THEN v.v ELSE ""

asSlice(v) == IF v.k = "arr" THEN v.v ELSE <<>>

\* the string entries of a list, in order
RECURSIVE StringsOf(_)
StringsOf(a) ==
    IF a = <<>> THEN <<>>
    ELSE IF Head(a).k = "str" THEN <<Head(a).v>> \o StringsOf(Tail(a))
    ELSE StringsOf(Tail(a))

asStringSlice(v) == StringsOf(asSlice(v))

\* mapSchemaValues(raw): name -> schemaValue for the schema-like entries
mapSchemaValues(raw) ==
    IF raw.k # "obj" THEN EmptyMap
    ELSE [n \in {x \in DOMAIN raw.v : SchemaOk(raw.v[x])} |-> raw.v[n]]

nodeProperties(node) ==
    IF ~IsObject(node) THEN EmptyMap ELSE mapSchemaValues(Get(node.v, "properties"))

nodeRequired(node) ==
    IF ~IsObject(node) THEN <<>> ELSE asStringSlice(Get(node.v, "required"))

-----------------------------------------------------------------------------
(* Deterministic ordering.                                                 *)

\* sortedSchemaValueKeys: iter is the order the range over the map took
sortedSchemaValueKeys(values, iter) == SortStrings(iter)

\* the first loop of propertyOrder and the loop of requiredPropertyOrder
RECURSIVE RequiredKnownOnce(_, _, _)
RequiredKnownOnce(required, properties, out) ==
    IF required = <<>> THEN out
    ELSE LET name == Head(required)
         IN  IF name \notin DOMAIN properties \/ Contains(out, name)
             THEN RequiredKnownOnce(Tail(required), properties, out)
             ELSE RequiredKnownOnce(Tail(required), properties, Append(out, name))

\* the second loop of propertyOrder: the names not seen, in range order
RECURSIVE NotSeen(_, _)
NotSeen(iter, out) ==
    IF iter = <<>> THEN <<>>
    ELSE IF Contains(out, Head(iter)) THEN NotSeen(Tail(iter), out)
    ELSE <<Head(iter)>> \o NotSeen(Tail(iter), out)

propertyOrder_unsorted(required, properties, iter) ==
    IF DOMAIN properties = {} THEN <<>>
    ELSE LET out == RequiredKnownOnce(required, properties, <<>>)
         IN  out \o NotSeen(iter, out)

\* propertyOrder(required, properties); iter is the order of the range over properties
propertyOrder(required, properties, iter) ==
    IF DOMAIN properties = {} THEN <<>>
    ELSE LET out == RequiredKnownOnce(required, properties, <<>>)
             optional == NotSeen(iter, out)
         IN  out \o SortStrings(optional)

requiredPropertyOrder_withOptional(required, properties) ==
    IF DOMAIN properties = {} THEN <<>>
    ELSE LET out == RequiredKnownOnce(required, properties, <<>>)
         IN  out \o NotSeen(CHOOSE iter \in PermsOf(DOMAIN properties) : TRUE, out)

\* requiredPropertyOrder(required, properties)
requiredPropertyOrder(required, properties) ==
    IF required = <<>> \/ DOMAIN properties = {} THEN <<>>
    ELSE RequiredKnownOnce(required, properties, <<>>)

rootDefinitionName(ref) ==
    LET r == TrimSpace(ref)
        nameAfter(prefix) ==
            LET path == TrimPrefix(r, prefix)
            IN  IF path = "" THEN "" ELSE Head(Split(path, "/"))
    IN  IF r = "" THEN ""
        ELSE IF HasPrefix(r, "#/$defs/") THEN nameAfter("#/$defs/")
        ELSE IF HasPrefix(r, "#/definitions/") THEN nameAfter("#/definitions/")
        ELSE ""

definitionOrder_rootTwice(defs, rootName, iter) ==
    LET keys == SortStrings(iter)
        trimmed == TrimSpace(rootName)
        root == IF trimmed # "" THEN trimmed
                ELSE IF "Config" \in DOMAIN defs THEN "Config"
                ELSE Head(keys)
    IN  IF keys = <<>> THEN <<>> ELSE <<root>> \o keys

definitionOrder_nofallback(defs, rootName, iter) ==
    LET keys == SortStrings(iter)
        root == TrimSpace(rootName)
    IN  IF keys = <<>> \/ root \notin DOMAIN defs THEN keys
        ELSE <<root>> \o SelectSeq(keys, LAMBDA n : n # root)

\* definitionOrder(defs, rootName); iter is the order of the range over defs
definitionOrder(defs, rootName, iter) ==
    LET keys == SortStrings(iter)
        trimmed == TrimSpace(rootName)
        root == IF trimmed # "" THEN trimmed
                ELSE IF "Config" \in DOMAIN defs THEN "Config"
                ELSE Head(keys)
    IN  IF keys = <<>> THEN <<>>
        ELSE IF root \notin DOMAIN defs THEN keys
        ELSE <<root>> \o SelectSeq(keys, LAMBDA n : n # root)


-----------------------------------------------------------------------------
(* The ordering functions applied to drawn inputs.                         *)

PropNames == {"a", "b", "B", "ab"}
DefNames == {"Alpha", "Config", "Zulu", "beta"}
RootRefs == {"", "#", "#/$defs/Alpha", "#/definitions/Zulu", " #/$defs/Zulu ",
             "#/$defs/Missing", "#/$defs/", "#/$defs/beta/properties/a",
             "#/$defs/ Zulu", "#/other/Alpha"}

EmptySchema == JObj(EmptyMap)

OrderCalls ==
    {[fn |-> "propertyOrder", required |-> r, properties |-> [n \in names |-> EmptySchema]] :
        r \in SeqsUpTo(PropNames, MaxRequired), names \in SUBSET PropNames}
    \cup
    {[fn |-> "definitionOrder", defs |-> [n \in names |-> EmptySchema], ref |-> r] :
        names \in SUBSET DefNames, r \in RootRefs}

\* no second call is in flight
Nobody == [pc |-> "none"]

\* no error: the nil of an error value
NilError == [kind |-> "nil", text |-> ""]
\* a cliRunner before run: nothing written, no error and no exit code yet
NoRunner == [stdout |-> <<>>, stderr |-> <<>>, code |-> -1, err |-> NilError]

BuilderIdle == stack = <<>> /\ activeRefs = EmptyMap /\ ret = JNull /\ rootNode = JNull
RenderIdle == paths = EmptyMap /\ seen = {} /\ queue = <<>> /\ defOrder = <<>> /\ view = <<>>

InitOrder ==
    /\ pc = "call"
    /\ call \in OrderCalls
    /\ result = JNull
    /\ err = ""
    /\ previous = JNull
    /\ parked = Nobody
    /\ runner = NoRunner
    /\ BuilderIdle
    /\ RenderIdle

CallPropertyOrder ==
    /\ pc = "call"
    /\ call.fn = "propertyOrder"
    /\ \E iter \in PermsOf(DOMAIN call.properties) :
          result' = propertyOrder(call.required, call.properties, iter)
    /\ pc' = "done"
    /\ UNCHANGED <<call, err, previous, parked, runner, builderVars, renderVars>>

\* buildRenderView lines 42 and 44: the root name comes from the root $ref
CallDefinitionOrder ==
    /\ pc = "call"
    /\ call.fn = "definitionOrder"
    /\ \E iter \in PermsOf(DOMAIN call.defs) :
          result' = definitionOrder(call.defs, rootDefinitionName(call.ref), iter)
    /\ pc' = "done"
    /\ UNCHANGED <<call, err, previous, parked, runner, builderVars, renderVars>>

NextOrder == CallPropertyOrder \/ CallDefinitionOrder

SpecOrder == InitOrder /\ [][NextOrder]_vars

\* index of the first occurrence of x in seq
FirstIndex(seq, x) == MinOf({i \in 1..Len(seq) : seq[i] = x})

Ascending(seq) == \A i, j \in 1..Len(seq) : i < j => StrLess(seq[i], seq[j])

\* C5: propertyOrder(R, P) is the names of R that are keys of P, in R's order with
\* later duplicates removed, followed by the remaining keys of P in ascending
\* lexicographic order.
C5_PropertyOrder ==
    (pc = "done" /\ call.fn = "propertyOrder") =>
        LET R == call.required
            P == DOMAIN call.properties
            known == Range(R) \cap P
            k == Cardinality(known)
        IN  /\ Len(result) = Cardinality(P)
            /\ Range(result) = P
            /\ {result[i] : i \in 1..k} = known
            /\ \A i, j \in 1..k :
                  i < j => FirstIndex(R, result[i]) < FirstIndex(R, result[j])
            /\ Ascending(SubSeq(result, k + 1, Len(result)))

C5_Witness ==
    /\ pc = "done"
    /\ call.fn = "propertyOrder"
    /\ call.required = <<"b", "a", "b">>
    /\ DOMAIN call.properties = {"b", "B", "ab"}
    /\ result = <<"b", "B", "ab">>

\* the name definitionOrder takes as the root named by the root $ref
NamedRoot == TrimSpace(rootDefinitionName(call.ref))

RootFirstThenAscending(root) ==
    /\ Len(result) = Cardinality(DOMAIN call.defs)
    /\ Range(result) = DOMAIN call.defs
    /\ result[1] = root
    /\ Ascending(Tail(result))

LeastName(S) == CHOOSE x \in S : \A y \in S \ {x} : StrLess(x, y)

\* C6 as stated: the root is the definition named by the root $ref if present,
\* else Config if it exists, else the lexicographically first name; the root
\* comes first and the other names follow in ascending order.
C6_AsStated ==
    (pc = "done" /\ call.fn = "definitionOrder" /\ DOMAIN call.defs # {}) =>
        RootFirstThenAscending(
            IF NamedRoot \in DOMAIN call.defs THEN NamedRoot
            ELSE IF "Config" \in DOMAIN call.defs THEN "Config"
            ELSE LeastName(DOMAIN call.defs))

\* C6 amended: the fallback to Config (else the first name) applies only when the
\* root $ref names no definition at all; when it names a definition that exists
\* that one is the root; when it names one that does not exist the order is the
\* plain ascending order.
C6_DefinitionOrder ==
    (pc = "done" /\ call.fn = "definitionOrder" /\ DOMAIN call.defs # {}) =>
        IF NamedRoot = ""
        THEN RootFirstThenAscending(
                IF "Config" \in DOMAIN call.defs THEN "Config"
                ELSE LeastName(DOMAIN call.defs))
        ELSE IF NamedRoot \in DOMAIN call.defs
        THEN RootFirstThenAscending(NamedRoot)
        ELSE RootFirstThenAscending(LeastName(DOMAIN call.defs))

C6_Witness ==
    /\ pc = "done"
    /\ call.fn = "definitionOrder"
    /\ call.ref = "#/$defs/Missing"
    /\ DOMAIN call.defs = {"Alpha", "Config", "Zulu"}
    /\ result = <<"Alpha", "Config", "Zulu">>

\* C28: for every non-empty map of definitions and every root name, empty,
\* naming a definition of the map or naming one that is not there,
\* definitionOrder returns every definition name exactly once and no other
\* name; when the root name names a definition that is not there, the result
\* is in plain ascending order.
C28_Permutation ==
    (pc = "done" /\ call.fn = "definitionOrder" /\ DOMAIN call.defs # {}) =>
        /\ Len(result) = Cardinality(DOMAIN call.defs)
        /\ \A name \in DOMAIN call.defs :
              Cardinality({i \in 1..Len(result) : result[i] = name}) = 1
        /\ NamedRoot # "" /\ NamedRoot \notin DOMAIN call.defs => Ascending(result)

\* four definitions and a root name that is none of them
C28_Witness ==
    /\ pc = "done"
    /\ call.fn = "definitionOrder"
    /\ NamedRoot = "Missing"
    /\ DOMAIN call.defs = {"Zulu", "beta", "Config", "Alpha"}
    /\ result = <<"Alpha", "Config", "Zulu", "beta">>

-----------------------------------------------------------------------------
(* Definition graph: edges of one definition.                              *)

appendPath_dotAlways(base, segment) ==
    LET b == TrimSpace(base)
        s == TrimSpace(segment)
    IN  IF b = "" THEN s ELSE b \o "." \o s

\* appendPath(base, segment)
appendPath(base, segment) ==
    LET b == TrimSpace(base)
        s == TrimSpace(segment)
    IN  IF b = "" THEN s
        ELSE IF s = "" THEN b
        ELSE b \o "." \o s

\* addDefinitionEdge: the edge map is keyed by target and path, so it holds a
\* set of edges; an empty path or target adds nothing
addDefinitionEdge(path, target) ==
    LET p == TrimSpace(path)
        t == TrimSpace(target)
    IN  IF p = "" \/ t = "" THEN {} ELSE {[Path |-> p, Target |-> t]}

SamePathKeywords == {"if", "then", "else", "not", "contentSchema"}
CompositionKeywords == {"allOf", "anyOf", "oneOf"}
IndexedKeywords == {"items", "prefixItems", "contains", "additionalItems",
                    "unevaluatedItems", "additionalProperties", "unevaluatedProperties"}
NestedKeywords == {"properties", "patternProperties"}

RECURSIVE collectDefinitionEdges(_, _)
RECURSIVE collectDefinitionEdgesAny(_, _)

\* collectDefinitionEdges(schema, path, edgeMap): the edges it adds
collectDefinitionEdges(schema, path) ==
    IF ~IsObject(schema) THEN {}
    ELSE LET object == schema.v
             target == rootDefinitionName(asString(Get(object, "$ref")))
         IN  (IF target # "" THEN addDefinitionEdge(path, target) ELSE {})
             \cup UNION {UNION {collectDefinitionEdgesAny(asSlice(Get(object, kw))[i], path) :
                                    i \in 1..Len(asSlice(Get(object, kw)))} :
                            kw \in CompositionKeywords}
             \cup UNION {collectDefinitionEdgesAny(Get(object, kw), path) :
                            kw \in SamePathKeywords}
             \cup UNION {collectDefinitionEdgesAny(Get(object, kw), appendPath(path, "[]")) :
                            kw \in IndexedKeywords}
             \cup UNION {UNION {collectDefinitionEdges(mapSchemaValues(Get(object, kw))[key],
                                                       appendPath(path, key)) :
                                    key \in DOMAIN mapSchemaValues(Get(object, kw))} :
                            kw \in NestedKeywords}

collectDefinitionEdgesAny(raw, path) ==
    IF raw.k = "arr"
    THEN UNION {collectDefinitionEdgesAny(raw.v[i], path) : i \in 1..Len(raw.v)}
    ELSE IF SchemaOk(raw) THEN collectDefinitionEdges(toSchemaValue(raw), path)
    ELSE {}

\* the edge map of definitionEdges before its keys are sorted
EdgeMap(node) ==
    IF ~IsObject(node) THEN {}
    ELSE LET properties == nodeProperties(node)
         IN  UNION {collectDefinitionEdges(properties[name], name) : name \in DOMAIN properties}

\* order of the edge map keys target + "\x00" + path (names hold no NUL byte, so
\* a target that is a prefix of another sorts first)
EdgeKeyLess(e, f) ==
    IF e.Target = f.Target THEN StrLess(e.Path, f.Path) ELSE StrLess(e.Target, f.Target)

RECURSIVE SortEdges(_)
SortEdges(seq) ==
    IF seq = <<>> THEN <<>>
    ELSE LET rest == SortEdges(Tail(seq))
             x == Head(seq)
             k == Cardinality({i \in 1..Len(rest) : EdgeKeyLess(rest[i], x)})
         IN  SubSeq(rest, 1, k) \o <<x>> \o SubSeq(rest, k + 1, Len(rest))

\* definitionEdges(node); iter is the order of the range over the edge map
definitionEdges(node, iter) ==
    IF ~IsObject(node) \/ DOMAIN nodeProperties(node) = {} THEN <<>>
    ELSE SortEdges(iter)

-----------------------------------------------------------------------------
(* Definition graph: breadth-first path building.                          *)

maxDepth == 20

SeenKey_targetOnly(target, prefix) == <<target, "">>

\* seenKey target + "\x00" + prefix, kept as a pair
SeenKey(target, prefix) == <<target, prefix>>

RECURSIVE ExpandEdges_skipSelf(_, _, _, _)
ExpandEdges_skipSelf(edges, current, rootDefinition, st) ==
    IF edges = <<>> THEN st
    ELSE LET edge == Head(edges)
             nextPrefix == appendPath(current.Prefix, edge.Path)
             seenKey == <<edge.Target, nextPrefix>>
         IN  IF edge.Target = rootDefinition
                \/ edge.Target = current.Definition
                \/ TrimSpace(nextPrefix) = ""
                \/ seenKey \in st.seen
             THEN ExpandEdges_skipSelf(Tail(edges), current, rootDefinition, st)
             ELSE ExpandEdges_skipSelf(Tail(edges), current, rootDefinition,
                    [paths |-> [d \in DOMAIN st.paths \cup {edge.Target} |->
                                   IF d = edge.Target
                                   THEN Append((IF d \in DOMAIN st.paths THEN st.paths[d] ELSE <<>>), nextPrefix)
                                   ELSE st.paths[d]],
                     seen |-> st.seen \cup {seenKey},
                     queue |-> Append(st.queue,
                                  [Definition |-> edge.Target,
                                   Depth |-> current.Depth + 1,
                                   Prefix |-> nextPrefix])])

RECURSIVE ExpandEdges_intoRoot(_, _, _, _)
ExpandEdges_intoRoot(edges, current, rootDefinition, st) ==
    IF edges = <<>> THEN st
    ELSE LET edge == Head(edges)
             nextPrefix == appendPath(current.Prefix, edge.Path)
             seenKey == <<edge.Target, nextPrefix>>
         IN  IF TrimSpace(nextPrefix) = ""
                \/ seenKey \in st.seen
             THEN ExpandEdges_intoRoot(Tail(edges), current, rootDefinition, st)
             ELSE ExpandEdges_intoRoot(Tail(edges), current, rootDefinition,
                    [paths |-> [d \in DOMAIN st.paths \cup {edge.Target} |->
                                   IF d = edge.Target
                                   THEN Append((IF d \in DOMAIN st.paths THEN st.paths[d] ELSE <<>>), nextPrefix)
                                   ELSE st.paths[d]],
                     seen |-> st.seen \cup {seenKey},
                     queue |-> Append(st.queue,
                                  [Definition |-> edge.Target,
                                   Depth |-> current.Depth + 1,
                                   Prefix |-> nextPrefix])])

\* one pass of the loop over the edges of the dequeued definition
\* st = [paths, seen, queue]
RECURSIVE ExpandEdges(_, _, _, _)
ExpandEdges(edges, current, rootDefinition, st) ==
    IF edges = <<>> THEN st
    ELSE LET edge == Head(edges)
             nextPrefix == appendPath(current.Prefix, edge.Path)
             seenKey == SeenKey(edge.Target, nextPrefix)
         IN  IF edge.Target = rootDefinition
                \/ TrimSpace(nextPrefix) = ""
                \/ seenKey \in st.seen
             THEN ExpandEdges(Tail(edges), current, rootDefinition, st)
             ELSE ExpandEdges(Tail(edges), current, rootDefinition,
                    [paths |-> [d \in DOMAIN st.paths \cup {edge.Target} |->
                                   IF d = edge.Target
                                   THEN Append((IF d \in DOMAIN st.paths THEN st.paths[d] ELSE <<>>), nextPrefix)
                                   ELSE st.paths[d]],
                     seen |-> st.seen \cup {seenKey},
                     queue |-> Append(st.queue,
                                  [Definition |-> edge.Target,
                                   Depth |-> current.Depth + 1,
                                   Prefix |-> nextPrefix])])

DepthCapped_never(current) == FALSE

DepthCapped_late(current) == current.Depth > maxDepth

\* the depth test of the loop body
DepthCapped(current) == current.Depth >= maxDepth

SortAllPaths_unsorted(ps) == ps

\* the final loop: every path list sorted
SortAllPaths(ps) == [d \in DOMAIN ps |-> SortStrings(ps[d])]

PropertyPathSet_showRoot(basePaths, propertyName, hideRootPath) ==
    LET name == TrimSpace(propertyName)
    IN  IF name = "" THEN {}
        ELSE {p \in {appendPath(basePaths[i], name) : i \in 1..Len(basePaths)} :
                 TrimSpace(p) # ""}

\* buildPropertyPaths(basePaths, propertyName, hideRootPath); the dedup map is a
\* set, iter is the order of the range over it
PropertyPathSet(basePaths, propertyName, hideRootPath) ==
    LET name == TrimSpace(propertyName)
    IN  IF name = "" THEN {}
        ELSE {p \in {appendPath(basePaths[i], name) : i \in 1..Len(basePaths)} :
                 TrimSpace(p) # "" /\ ~(hideRootPath /\ p = name)}

buildPropertyPaths(basePaths, propertyName, hideRootPath, iter) ==
    IF TrimSpace(propertyName) = "" \/ Len(basePaths) = 0 THEN <<>>
    ELSE SortStrings(iter)

-----------------------------------------------------------------------------
(* Schema documents.                                                       *)

\* parseDocument: the root must be a boolean or an object; Defs come from $defs,
\* else from the legacy definitions keyword
ParseFails(raw) == ~SchemaOk(raw)

parseDocument(raw) ==
    LET keywords == IF raw.k = "obj" THEN raw.v ELSE EmptyMap
        defs == mapSchemaValues(Get(keywords, "$defs"))
        legacy == mapSchemaValues(Get(keywords, "definitions"))
    IN  [Root |-> toSchemaValue(raw),
         Ref |-> asString(Get(keywords, "$ref")),
         Defs |-> IF DOMAIN defs # {} THEN defs ELSE legacy,
         RawKeywords |-> keywords]

renderDefinitions_unnamed(doc, rootName) ==
    IF DOMAIN doc.Defs # {} THEN doc.Defs ELSE [n \in {"Root"} |-> doc.Root]

\* renderDefinitions(doc, rootName)
renderDefinitions(doc, rootName) ==
    IF DOMAIN doc.Defs # {} THEN doc.Defs
    ELSE LET name == IF TrimSpace(rootName) = "" THEN "Root" ELSE TrimSpace(rootName)
         IN  [n \in {name} |-> doc.Root]

\* propertyHeadingName(key, prop)
propertyHeadingName(key, prop) ==
    IF ~IsObject(prop) THEN key
    ELSE LET refName == rootDefinitionName(asString(Get(prop.v, "$ref")))
         IN  IF refName # "" THEN refName ELSE key

Str(s) == JStr(s)
Ref(r) == JObj("$ref" :> JStr(r))
TypeOnly(t) == JObj("type" :> JStr(t))
ObjectWith(props) == JObj(("type" :> JStr("object")) @@ ("properties" :> JObj(props)))
ArrayOf(item) == JObj(("type" :> JStr("array")) @@ ("items" :> item))
MapOf(item) == JObj(("type" :> JStr("object")) @@ ("additionalProperties" :> item))
AllOf(items) == JObj("allOf" :> JArr(items))
DocWith(ref, defs) == JObj(("$ref" :> JStr(ref)) @@ ("$defs" :> JObj(defs)))

\* TestRenderShowsResolvedPathsForReusedDefinitions
ReusedDefinitionsDoc ==
    DocWith("#/$defs/Config",
        ("Config" :> ObjectWith("spec" :> Ref("#/$defs/BuildSpec")))
     @@ ("BuildSpec" :> ObjectWith(("projects" :> MapOf(Ref("#/$defs/ProjectConfig")))
                                @@ ("settings" :> Ref("#/$defs/BuildSettings"))))
     @@ ("ProjectConfig" :> ObjectWith("settings" :> Ref("#/$defs/BuildSettings")))
     @@ ("BuildSettings" :> ObjectWith("sign" :> Ref("#/$defs/SignOptions")))
     @@ ("SignOptions" :> ObjectWith("enabled" :> TypeOnly("boolean"))))

\* TestRenderSupportsDefinitionsKeyword, TestRenderSupportsRootWithoutDefinitions
LegacyDefinitionsDoc ==
    JObj(("$ref" :> JStr("#/definitions/Config"))
      @@ ("definitions" :> JObj("Config" :> ObjectWith("name" :> TypeOnly("string")))))
RootOnlyDoc == ObjectWith("name" :> TypeOnly("string"))

\* a chain D0 -> D1 -> ... of n edges, each through property p
RECURSIVE ChainName(_)
ChainName(i) == IF i = 0 THEN "D" ELSE ChainName(i - 1) \o "n"
ChainDoc(n) ==
    DocWith("#/$defs/D",
        [d \in {ChainName(i) : i \in 0..n} |->
            IF d = ChainName(n) THEN ObjectWith("leaf" :> TypeOnly("string"))
            ELSE ObjectWith("p" :> Ref("#/$defs/" \o d \o "n"))])

\* property schemas by label
Leaf(label) ==
    CASE label = "string" -> TypeOnly("string")
      [] label = "true" -> JBool(TRUE)
      [] label = "A" -> Ref("#/$defs/A")
      [] label = "B" -> Ref("#/$defs/B")
      [] label = "Config" -> Ref("#/$defs/Config")
      [] label = "[A]" -> ArrayOf(Ref("#/$defs/A"))
      [] label = "[B]" -> ArrayOf(Ref("#/$defs/B"))
      [] label = "{B}" -> MapOf(Ref("#/$defs/B"))
      [] label = "allOf(B,A)" -> AllOf(<<Ref("#/$defs/B"), Ref("#/$defs/A")>>)
      [] label = "allOf(A)" -> AllOf(<<TypeOnly("object"), Ref("#/$defs/A")>>)
      [] label = "n:B" -> ObjectWith("n" :> Ref("#/$defs/B"))

\* documents over a root Config with properties a, b and two definitions A, B
\* with one property each
GraphDoc(la, lb, lx, ly) ==
    DocWith("#/$defs/Config",
        ("Config" :> ObjectWith(("a" :> Leaf(la)) @@ ("b" :> Leaf(lb))))
     @@ ("A" :> ObjectWith("x" :> Leaf(lx)))
     @@ ("B" :> ObjectWith("y" :> Leaf(ly))))

LeavesA == {"A", "[A]", "string", "Config"}
LeavesB == {"B", "A", "{B}", "allOf(B,A)", "n:B"}
LeavesX == {"string", "B", "A", "Config", "[B]", "allOf(A)"}
LeavesY == {"string", "A", "B", "true"}

\* documents without definitions: the root schema with a root reference and,
\* possibly, an empty $defs object
NoDefinitionsDoc(rootRef, defs) ==
    JObj((IF rootRef = "none" THEN EmptyMap ELSE "$ref" :> JStr(rootRef))
      @@ (IF defs = "empty" THEN "$defs" :> JObj(EmptyMap) ELSE EmptyMap)
      @@ ("type" :> JStr("object"))
      @@ ("required" :> JArr(<<JStr("tags")>>))
      @@ ("properties" :> JObj(("name" :> TypeOnly("string"))
                            @@ ("tags" :> ArrayOf(TypeOnly("string")))
                            @@ ("self" :> Ref("#")))))

NoDefinitionsRefs == {"none", "", "#", "#/$defs/Thing", " #/definitions/Legacy/properties/x ",
                      "#/$defs/", "other.json#/$defs/Thing"}

DanglingRootDoc ==
    DocWith("#/$defs/Missing", ("Config" :> ObjectWith("a" :> Ref("#/$defs/A")))
                            @@ ("A" :> ObjectWith("x" :> Ref("#/$defs/Config"))))

\* TestGenerateExampleJSONSupportsLocalDefinitionRefs
LocalRefsDoc ==
    DocWith("#/$defs/Config",
        "Config" :> JObj(("type" :> JStr("object"))
                      @@ ("required" :> JArr(<<JStr("name")>>))
                      @@ ("properties" :> JObj("name" :> TypeOnly("string")))))

\* buildExampleSchemaFixture
ExampleSchemaFixture ==
    DocWith("#/$defs/Config",
        "Config" :> JObj(
            ("type" :> JStr("object"))
         @@ ("required" :> JArr(<<JStr("name"), JStr("settings")>>))
         @@ ("properties" :> JObj(
                ("name" :> JObj(("type" :> JStr("string")) @@ ("default" :> JStr("demo"))
                             @@ ("title" :> JStr("Service Name"))
                             @@ ("description" :> JStr("Human-readable service name."))))
             @@ ("mode" :> JObj(("type" :> JStr("string"))
                             @@ ("examples" :> JArr(<<JStr("safe")>>))))
             @@ ("count" :> TypeOnly("integer"))
             @@ ("features" :> ArrayOf(TypeOnly("string")))
             @@ ("settings" :> JObj(
                    ("type" :> JStr("object"))
                 @@ ("required" :> JArr(<<JStr("enabled")>>))
                 @@ ("properties" :> JObj(
                        ("enabled" :> JObj(("type" :> JStr("boolean"))
                                        @@ ("default" :> JBool(TRUE))
                                        @@ ("title" :> JStr("Enabled"))
                                        @@ ("description" :> JStr("Enables processing pipeline."))))
                     @@ ("note" :> TypeOnly("string"))))))))))

\* schemas of the example documents by label
ExLeaf(label) ==
    CASE label = "string" -> TypeOnly("string")
      [] label = "true" -> JBool(TRUE)
      [] label = "A" -> Ref("#/$defs/A")
      [] label = " A " -> Ref(" #/$defs/A\n")
      [] label = "B" -> Ref("#/$defs/B")
      [] label = "#" -> Ref("#")
      [] label = "A+" -> JObj(("$ref" :> JStr("#/$defs/A")) @@ ("required" :> JArr(<<JStr("x")>>)))
      [] label = "[A]" -> ArrayOf(Ref("#/$defs/A"))
      [] label = "[B,A]" -> JObj("prefixItems" :> JArr(<<Ref("#/$defs/B"), JNum(0), Ref("#/$defs/A")>>))
      [] label = "allOf(A)" -> AllOf(<<Ref("#/$defs/A")>>)
      [] label = "allOf(0,B)" -> AllOf(<<JNum(0), Ref("#/$defs/B")>>)
      [] label = "oneOf(B)" -> JObj("oneOf" :> JArr(<<Ref("#/$defs/B")>>))
      [] label = "A.n" -> Ref("#/$defs/A/properties/n")
      [] label = "A.allOf.0" -> Ref("#/$defs/A/allOf/0")
      [] label = "missing" -> Ref("#/$defs/Missing")

ListOf(names) == JArr([i \in 1..Len(names) |-> JStr(names[i])])

\* documents over two definitions that refer to each other and to themselves:
\* A through its property x and its allOf member, B through its property y
CycleDoc(root, lx, la, ly, reqA) ==
    DocWith(root,
        ("A" :> JObj(("type" :> JStr("object"))
                  @@ ("required" :> ListOf(reqA))
                  @@ ("properties" :> JObj(("n" :> TypeOnly("string")) @@ ("x" :> ExLeaf(lx))))
                  @@ (IF la = "none" THEN EmptyMap ELSE "allOf" :> JArr(<<ExLeaf(la)>>))))
     @@ ("B" :> JObj(("required" :> ListOf(<<"y", " z ">>))
                  @@ ("properties" :> JObj(("y" :> ExLeaf(ly)) @@ ("z" :> TypeOnly("integer")))))))

\* a definition whose allOf members declare properties it declares itself:
\* Config merges Base (which merges a member of its own) and an inline member
MergeInline ==
    JObj(("required" :> ListOf(<<"extra", "id">>))
      @@ ("properties" :> JObj(("name" :> TypeOnly("boolean")) @@ ("id" :> TypeOnly("string"))
                            @@ ("extra" :> TypeOnly("boolean")))))

\* a reference to Base with keywords of its own beside it
MergeSibling ==
    JObj(("$ref" :> JStr(" #/$defs/Base"))
      @@ ("title" :> JStr("Override"))
      @@ ("required" :> ListOf(<<"name">>)))

MergeMembers(label) ==
    CASE label = "none" -> <<>>
      [] label = "Base" -> <<Ref("#/$defs/Base")>>
      [] label = "0,Base,inline" -> <<JNum(0), Ref("#/$defs/Base"), MergeInline>>
      [] label = "inline,Base" -> <<MergeInline, Ref("#/$defs/Base")>>

MergeDoc(reqConfig, members) ==
    DocWith("#/$defs/Config",
        ("Config" :> JObj(("type" :> JStr("object"))
                       @@ ("required" :> ListOf(reqConfig))
                       @@ ("properties" :> JObj(("name" :> TypeOnly("string"))
                                             @@ ("base" :> MergeSibling)))
                       @@ (IF members = "none" THEN EmptyMap
                           ELSE "allOf" :> JArr(MergeMembers(members)))))
     @@ ("Base" :> JObj(("required" :> ListOf(<<"id", " name ", " ", "deep">>))
                     @@ ("properties" :> JObj(("name" :> TypeOnly("integer"))
                                           @@ ("id" :> TypeOnly("integer"))))
                     @@ ("allOf" :> JArr(<<JObj(
                            ("required" :> ListOf(<<"deep", "id">>))
                         @@ ("properties" :> JObj(("deep" :> TypeOnly("string"))
                                               @@ ("id" :> TypeOnly("boolean")))))>>)))))

MergeRequired == {<<"name">>, <<"name", "id", "name">>}
MergeLabels == {"none", "Base", "0,Base,inline", "inline,Base"}

\* a keyword of a node that names a value: absent, a scalar, an array, or (for
\* the list keywords) an empty list
ValueKeyword(keyword, kind) ==
    LET scalar == JStr(keyword)
        array == JArr(<<JStr(keyword)>>)
        value == IF kind = "array" THEN array ELSE scalar
    IN  IF kind = "absent" THEN EmptyMap
        ELSE IF keyword \in {"examples", "enum"}
        THEN keyword :> (IF kind = "empty" THEN JArr(<<>>) ELSE JArr(<<value, JStr("second")>>))
        ELSE keyword :> value

\* the keywords that decide whether a node is an object, an array or neither
ShapeKeywords(shape) ==
    CASE shape = "string" -> "type" :> JStr("string")
      [] shape = "untyped" -> EmptyMap
      [] shape = "typeArray" -> "type" :> JStr("array")
      [] shape = "items" -> "items" :> TypeOnly("integer")
      [] shape = "badItems" -> ("type" :> JStr("Array")) @@ ("items" :> JNum(3))
      [] shape = "prefixItems" ->
            ("prefixItems" :> JArr(<<TypeOnly("string"), JNum(0), TypeOnly("boolean")>>))
         @@ ("items" :> TypeOnly("integer"))
      [] shape = "object" -> "type" :> JStr("object")
      [] shape = "properties" -> ("type" :> JStr("string"))
                              @@ ("properties" :> JObj("p" :> TypeOnly("string")))
      [] shape = "required" -> "required" :> ListOf(<<"p">>)

\* a document that is one node with a shape and explicit values
ValueDoc(d) ==
    JObj(ShapeKeywords(d.shape)
      @@ ValueKeyword("default", d.default)
      @@ ValueKeyword("examples", d.examples)
      @@ ValueKeyword("example", d.example)
      @@ ValueKeyword("const", d.const)
      @@ ValueKeyword("enum", d.enum))

ValueKinds == {"absent", "scalar", "array"}
ValueShapes == {"string", "untyped", "typeArray", "items", "badItems", "prefixItems", "object",
                "properties", "required"}

ValueDocs ==
    {[doc |-> "value", shape |-> sh, default |-> a, examples |-> b, example |-> c,
      const |-> d, enum |-> e] :
        sh \in ValueShapes, a \in ValueKinds, b \in ValueKinds \cup {"empty"}, c \in ValueKinds,
        d \in ValueKinds, e \in ValueKinds \cup {"empty"}}

\* the type keyword of a node, by label
TypeKeyword(label) ==
    CASE label = "absent" -> EmptyMap
      [] label = "[]" -> "type" :> JArr(<<>>)
      [] label = "[null]" -> "type" :> ListOf(<<"null">>)
      [] label = "[null,Boolean]" -> "type" :> ListOf(<<"null", "Boolean">>)
      [] label = "[0,string]" -> "type" :> JArr(<<JNum(0), JStr("string")>>)
      [] label = "0" -> "type" :> JNum(0)
      [] OTHER -> "type" :> JStr(label)

\* the members of a composition keyword, by label
Members(keyword, label) ==
    CASE label = "absent" -> EmptyMap
      [] label = "[]" -> keyword :> JArr(<<>>)
      [] label = "[0]" -> keyword :> JArr(<<JNum(0)>>)
      [] label = "[0,string,integer]" ->
            keyword :> JArr(<<JNum(0), TypeOnly("string"), TypeOnly("integer")>>)
      [] label = "[true,string]" -> keyword :> JArr(<<JBool(TRUE), TypeOnly("string")>>)
      [] label = "[#,string]" -> keyword :> JArr(<<Ref("#"), TypeOnly("string")>>)
      [] label = "[integer]" -> keyword :> JArr(<<TypeOnly("integer")>>)
      [] label = "[boolean]" -> keyword :> JArr(<<TypeOnly("boolean")>>)
      [] label = "[properties]" ->
            keyword :> JArr(<<JObj("properties" :> JObj("q" :> TypeOnly("integer")))>>)

\* a document that is one node with a type and composition keywords
TypedDoc(d) ==
    JObj(TypeKeyword(d.type)
      @@ Members("oneOf", d.oneOf)
      @@ Members("anyOf", d.anyOf)
      @@ Members("allOf", d.allOf)
      @@ ValueKeyword("enum", d.enum))

TypeLabels == {"absent", "String", "NUMBER", "integer", "boolean", "null", "weird", "0", "[]",
               "[null]", "[null,Boolean]", "[0,string]"}

TypedDocs ==
    {[doc |-> "typed", type |-> t, oneOf |-> a, anyOf |-> b, allOf |-> c, enum |-> e] :
        t \in TypeLabels,
        a \in {"absent", "[]", "[0]", "[0,string,integer]", "[true,string]", "[#,string]"},
        b \in {"absent", "[integer]"},
        c \in {"absent", "[0]", "[boolean]", "[properties]"},
        e \in {"absent", "scalar"}}

\* a property schema with a title
Titled(title, type) == JObj(("type" :> JStr(type)) @@ ("title" :> JStr(title)))

\* a definition with titled properties: own is declared by Config itself,
\* shared by Config, by an inline allOf member or by Base that an allOf member
\* refers to, and list is an array of objects by items or by prefixItems
NotedShared == ("shared" :> Titled("Shared", "string"))

NotedList(list) ==
    LET first == ObjectWith("a" :> Titled("First", "string"))
        second == ObjectWith("a" :> Titled("Second", "string"))
    IN  IF list = "items" THEN ArrayOf(first)
        ELSE JObj("prefixItems" :> JArr(<<first, second>>))

NotedDoc(shared, list) ==
    DocWith("#/$defs/Config",
        ("Config" :> JObj(("type" :> JStr("object"))
                       @@ ("properties" :> JObj(("own" :> Titled("Own", "string"))
                                             @@ ("list" :> NotedList(list))
                                             @@ (IF shared = "own" THEN NotedShared ELSE EmptyMap)))
                       @@ (CASE shared = "own" -> EmptyMap
                             [] shared = "allOf" ->
                                   "allOf" :> JArr(<<JObj("properties" :> JObj(NotedShared))>>)
                             [] shared = "allOf(Base)" ->
                                   "allOf" :> JArr(<<Ref("#/$defs/Base")>>))))
     @@ ("Base" :> JObj("properties" :> JObj(NotedShared))))

NotedDocs ==
    {[doc |-> "noted", shared |-> shared, list |-> list] :
        shared \in {"own", "allOf", "allOf(Base)"}, list \in {"items", "prefixItems"}}

CycleRoots == {"#/$defs/A", "#/$defs/B"}
CycleX == {"A", " A ", "B", "A+", "[A]", "allOf(A)", "A.n", "A.allOf.0"}
CycleAllOf == {"none", "B", "A", "allOf(0,B)"}
CycleY == {"string", "A", "B", "[B,A]", "oneOf(B)"}
CycleRequired == {<<"x">>, <<"n", "zz", "x", "n">>}

\* a document that refers to itself as a whole
SelfRootDoc(rootRef) ==
    JObj((IF rootRef = "" THEN EmptyMap ELSE "$ref" :> JStr(rootRef))
      @@ ("type" :> JStr("object"))
      @@ ("required" :> ListOf(<<"self">>))
      @@ ("properties" :> JObj(("self" :> Ref("#")) @@ ("n" :> TypeOnly("string")))))

\* references that do not resolve to an object schema
DanglingRef(kind) ==
    CASE kind = "external" -> "other.json#/$defs/A"
      [] kind = "noHash" -> "/$defs/A"
      [] kind = "missingKey" -> "#/$defs/Missing"
      [] kind = "missingRoot" -> "#/components/A"
      [] kind = "indexOutOfRange" -> "#/$defs/A/required/2"
      [] kind = "indexNegative" -> "#/$defs/A/required/-1"
      [] kind = "indexNoNumber" -> "#/$defs/A/required/first"
      [] kind = "throughScalar" -> "#/$defs/A/type/x"
      [] kind = "scalarTarget" -> "#/$defs/A/type"
      [] kind = "arrayTarget" -> "#/$defs/A/required"
      [] kind = "booleanTarget" -> "#/$defs/T"

DanglingKinds == {"external", "noHash", "missingKey", "missingRoot", "indexOutOfRange",
                  "indexNegative", "indexNoNumber", "throughScalar", "scalarTarget",
                  "arrayTarget", "booleanTarget"}

\* the keywords that stand next to the reference
Siblings(sib) ==
    CASE sib = "none" -> EmptyMap
      [] sib = "string" -> ("type" :> JStr("string"))
      [] sib = "object" -> ("type" :> JStr("object")) @@ ("required" :> ListOf(<<"q">>))
                           @@ ("properties" :> JObj(("q" :> TypeOnly("string"))
                                                 @@ ("r" :> TypeOnly("boolean"))))
SiblingKinds == {"none", "string", "object"}

DanglingNode(kind, sib) == JObj(("$ref" :> JStr(DanglingRef(kind))) @@ Siblings(sib))

DanglingPositions == {"root", "property", "items", "allOf"}

\* a document with an unresolvable reference at its root, in a property, in the
\* items of an array or in an allOf member
DanglingDoc(kind, sib, position) ==
    LET a == JObj(("type" :> JStr("object"))
               @@ ("required" :> ListOf(<<"p", "n">>))
               @@ ("properties" :> JObj(
                      ("n" :> TypeOnly("string"))
                   @@ ("p" :> (CASE position = "property" -> DanglingNode(kind, sib)
                                 [] position = "items" -> ArrayOf(DanglingNode(kind, sib))
                                 [] OTHER -> TypeOnly("boolean")))))
               @@ (IF position = "allOf" THEN "allOf" :> JArr(<<DanglingNode(kind, sib)>>)
                   ELSE EmptyMap))
        defs == "$defs" :> JObj(("A" :> a) @@ ("T" :> JBool(TRUE)))
    IN  IF position = "root" THEN JObj(DanglingNode(kind, sib).v @@ defs)
        ELSE JObj(("$ref" :> JStr("#/$defs/A")) @@ defs)

\* the schema documents examples are synthesized from, by name
ExampleDocs ==
    {[doc |-> "cycle", root |-> r, x |-> lx, allOf |-> la, y |-> ly, required |-> rq] :
        r \in CycleRoots, lx \in CycleX, la \in CycleAllOf, ly \in CycleY, rq \in CycleRequired}
    \cup {[doc |-> "dangling", ref |-> k, siblings |-> s, at |-> p] :
            k \in DanglingKinds, s \in SiblingKinds, p \in DanglingPositions}
    \cup {[doc |-> "selfRoot", root |-> r] : r \in {"", "#", " # "}}
    \cup {[doc |-> "merge", required |-> rq, allOf |-> la] : rq \in MergeRequired, la \in MergeLabels}
    \cup {[doc |-> n] : n \in {"localRefs", "fixture", "true", "number", "reused"}}

\* the schema documents rendered, by name
RenderDocs ==
    {[doc |-> "graph", a |-> la, b |-> lb, x |-> lx, y |-> ly] :
        la \in LeavesA, lb \in LeavesB, lx \in LeavesX, ly \in LeavesY}
    \cup {[doc |-> n] : n \in {"reused", "legacy", "rootOnly", "chain", "true", "number",
                               "danglingRoot"}}
    \cup {[doc |-> "noDefinitions", root |-> r, defs |-> k] :
            r \in NoDefinitionsRefs, k \in {"none", "empty"}}

\* the decoded JSON of a named document
Schema(d) ==
    CASE d.doc = "graph" -> GraphDoc(d.a, d.b, d.x, d.y)
      [] d.doc = "reused" -> ReusedDefinitionsDoc
      [] d.doc = "merge" -> MergeDoc(d.required, d.allOf)
      [] d.doc = "value" -> ValueDoc(d)
      [] d.doc = "noted" -> NotedDoc(d.shared, d.list)
      [] d.doc = "typed" -> TypedDoc(d)
      [] d.doc = "legacy" -> LegacyDefinitionsDoc
      [] d.doc = "rootOnly" -> RootOnlyDoc
      [] d.doc = "chain" -> ChainDoc(maxDepth + 1)
      [] d.doc = "true" -> JBool(TRUE)
      [] d.doc = "number" -> JNum(0)
      [] d.doc = "danglingRoot" -> DanglingRootDoc
      [] d.doc = "noDefinitions" -> NoDefinitionsDoc(d.root, d.defs)
      [] d.doc = "cycle" -> CycleDoc(d.root, d.x, d.allOf, d.y, d.required)
      [] d.doc = "dangling" -> DanglingDoc(d.ref, d.siblings, d.at)
      [] d.doc = "selfRoot" -> SelfRootDoc(d.root)
      [] d.doc = "localRefs" -> LocalRefsDoc
      [] d.doc = "fixture" -> ExampleSchemaFixture

-----------------------------------------------------------------------------
(* buildRenderView: definition order, path building, property paths.       *)

RenderDoc == parseDocument(Schema(call.schema))
RenderRootName == rootDefinitionName(RenderDoc.Ref)
RenderDefinitionMap == renderDefinitions(RenderDoc, RenderRootName)
RootDefinition == defOrder[1]

\* the orders a range over a map with keys S is let to take: all of them for a
\* small map, the ascending and the descending one for a larger map
RECURSIVE Reverse(_)
Reverse(seq) == IF seq = <<>> THEN <<>> ELSE Append(Reverse(Tail(seq)), Head(seq))
RECURSIVE AnyOrder(_)
AnyOrder(S) == IF S = {} THEN <<>> ELSE LET x == CHOOSE y \in S : TRUE IN <<x>> \o AnyOrder(S \ {x})
RangeOrders(S) ==
    IF Cardinality(S) <= 3 THEN PermsOf(S)
    ELSE {AnyOrder(S), Reverse(AnyOrder(S))}

InitRender ==
    /\ pc = "call"
    /\ call \in {[fn |-> "render", schema |-> d] : d \in RenderDocs}
    /\ result = JNull
    /\ err = ""
    /\ previous = JNull
    /\ parked = Nobody
    /\ runner = NoRunner
    /\ BuilderIdle
    /\ RenderIdle

\* Render: parseDocument fails on a root that is no schema
RenderParseError ==
    /\ pc = "call"
    /\ call.fn = "render"
    /\ ParseFails(Schema(call.schema))
    /\ pc' = "error"
    /\ err' = "ErrSchemaRootType"
    /\ UNCHANGED <<call, result, previous, parked, runner, builderVars, renderVars>>

\* buildRenderView lines 42-50 and buildDefinitionPaths up to its loop
StartRender ==
    /\ pc = "call"
    /\ call.fn = "render"
    /\ ~ParseFails(Schema(call.schema))
    /\ \E iter \in RangeOrders(DOMAIN RenderDefinitionMap) :
          LET order == definitionOrder(RenderDefinitionMap, RenderRootName, iter)
              root == order[1]
          IN  /\ defOrder' = order
              /\ IF TrimSpace(root) = "" \/ root \notin DOMAIN RenderDefinitionMap
                 THEN /\ paths' = EmptyMap
                      /\ seen' = {}
                      /\ queue' = <<>>
                      /\ pc' = "view"
                 ELSE /\ paths' = [d \in {root} |-> <<"">>]
                      /\ seen' = {SeenKey(root, "")}
                      /\ queue' = <<[Definition |-> root, Depth |-> 0, Prefix |-> ""]>>
                      /\ pc' = "bfs"
    /\ view' = <<>>
    /\ UNCHANGED <<call, result, err, previous, parked, runner, builderVars>>

\* one turn of the loop of buildDefinitionPaths
ExpandDefinition ==
    /\ pc = "bfs"
    /\ queue # <<>>
    /\ Head(queue).Depth <= maxDepth
    /\ LET current == Head(queue)
           node == Get(RenderDefinitionMap, current.Definition)
       IN  IF DepthCapped(current)
           THEN /\ queue' = Tail(queue)
                /\ UNCHANGED <<paths, seen>>
           ELSE \E iter \in RangeOrders(EdgeMap(node)) :
                   LET st == ExpandEdges(definitionEdges(node, iter), current, RootDefinition,
                                         [paths |-> paths, seen |-> seen, queue |-> Tail(queue)])
                   IN  /\ paths' = st.paths
                       /\ seen' = st.seen
                       /\ queue' = st.queue
    /\ UNCHANGED <<pc, call, result, err, previous, parked, runner, builderVars, defOrder, view>>

\* the queue is empty: every path list is sorted and returned
SortPaths ==
    /\ pc = "bfs"
    /\ queue = <<>>
    /\ paths' = SortAllPaths(paths)
    /\ pc' = "view"
    /\ UNCHANGED <<call, result, err, previous, parked, runner, builderVars, seen, queue, defOrder, view>>

\* one turn of the loop over defOrder: the definition's properties and their paths
DefinitionView(defName, propIter, reversed) ==
    LET node == RenderDefinitionMap[defName]
        properties == nodeProperties(node)
        required == nodeRequired(node)
        order == propertyOrder(required, properties, propIter)
        basePaths == IF defName \in DOMAIN paths THEN paths[defName] ELSE <<>>
        isRootDefinition == defName = RootDefinition
        pathsOf(propName) ==
            LET dedup == PropertyPathSet(basePaths, propName, isRootDefinition)
                asc == SortStrings(AnyOrder(dedup))
            IN  buildPropertyPaths(basePaths, propName, isRootDefinition,
                                   IF reversed THEN Reverse(asc) ELSE asc)
    IN  [Name |-> defName,
         Properties |-> [i \in 1..Len(order) |->
                            [Heading |-> defName \o "." \o propertyHeadingName(order[i], properties[order[i]]),
                             Name |-> order[i],
                             Paths |-> pathsOf(order[i])]]]

RenderDefinition ==
    /\ pc = "view"
    /\ Len(view) < Len(defOrder)
    /\ LET defName == defOrder[Len(view) + 1]
       IN  \E propIter \in RangeOrders(DOMAIN nodeProperties(RenderDefinitionMap[defName])),
              reversed \in BOOLEAN :
                view' = Append(view, DefinitionView(defName, propIter, reversed))
    /\ UNCHANGED <<pc, call, result, err, previous, parked, runner, builderVars, paths, seen, queue, defOrder>>

\* every definition is rendered: the view is returned (an error when it is empty)
FinishRender ==
    /\ pc = "view"
    /\ Len(view) = Len(defOrder)
    /\ IF Len(view) = 0
       THEN /\ pc' = "error"
            /\ err' = "schema has no renderable definitions"
            /\ UNCHANGED result
       ELSE /\ pc' = "done"
            /\ result' = [Paths |-> paths, Definitions |-> view]
            /\ UNCHANGED err
    /\ UNCHANGED <<call, previous, parked, runner, builderVars, renderVars>>

\* the caller renders the same document once more
RenderAgain ==
    /\ pc = "done"
    /\ call.fn = "render"
    /\ previous = JNull
    /\ previous' = result
    /\ pc' = "call"
    /\ result' = JNull
    /\ paths' = EmptyMap
    /\ seen' = {}
    /\ queue' = <<>>
    /\ defOrder' = <<>>
    /\ view' = <<>>
    /\ UNCHANGED <<call, err, parked, runner, builderVars>>

NextRender ==
    \/ RenderParseError
    \/ StartRender
    \/ ExpandDefinition
    \/ SortPaths
    \/ RenderDefinition
    \/ FinishRender
    \/ RenderAgain

SpecRender == InitRender /\ [][NextRender]_vars

-----------------------------------------------------------------------------
(* Claims about path building.                                             *)

RenderDone == pc = "done" /\ call.fn = "render"

\* <<definition, path>> pairs reached from the root by walks of at most n edges
\* of the definition graph; walks stop at an edge into the root when viaRoot is
\* FALSE and go on through it when viaRoot is TRUE
RECURSIVE WalkTargets(_, _)
WalkTargets(n, viaRoot) ==
    IF n = 0 THEN {<<RootDefinition, "">>}
    ELSE LET shorter == WalkTargets(n - 1, viaRoot)
         IN  shorter \cup
             {<<e[2].Target, appendPath(e[1][2], e[2].Path)>> :
                 e \in {f \in UNION {{<<w, g>> : g \in EdgeMap(Get(RenderDefinitionMap, w[1]))} :
                                        w \in shorter} :
                           viaRoot \/ f[2].Target # RootDefinition}}

PathsRecorded(d) == IF d \in DOMAIN result.Paths THEN result.Paths[d] ELSE <<>>

NoDuplicates(seq) == \A i, j \in 1..Len(seq) : i # j => seq[i] # seq[j]

PropertyPathsInView(defName, propName) ==
    LET dv == CHOOSE v \in Range(result.Definitions) : v.Name = defName
        pv == CHOOSE q \in Range(dv.Properties) : q.Name = propName
    IN  pv.Paths

ReusedScenarioPaths ==
    call.schema.doc = "reused" =>
        PropertyPathsInView("SignOptions", "enabled") =
            <<"spec.projects.[].settings.sign.enabled", "spec.settings.sign.enabled">>

C8_Deterministic ==
    RenderDone =>
        /\ previous # JNull => result = previous
        /\ \A d \in DOMAIN result.Paths : Ascending(result.Paths[d])

C8_Witness ==
    /\ RenderDone
    /\ previous # JNull
    /\ result = previous
    /\ call.schema.doc = "graph"
    /\ \E d \in DOMAIN result.Paths : Len(result.Paths[d]) >= 3

-----------------------------------------------------------------------------
(* Example synthesis: reference resolution.                                *)

Digits == "0123456789"
IsDigit(c) == \E i \in 1..Len(Digits) : Char(Digits, i) = c

RECURSIVE DecimalValue(_, _)
DecimalValue(s, acc) ==
    IF s = "" THEN acc ELSE DecimalValue(Tail(s), 10 * acc + (Code(Char(s, 1)) - 48))

\* strconv.Atoi: an optional sign, then decimal digits only
Atoi(token) ==
    LET signed == token # "" /\ Char(token, 1) \in {"+", "-"}
        digits == IF signed THEN Tail(token) ELSE token
    IN  IF digits = "" \/ \E i \in 1..Len(digits) : ~IsDigit(Char(digits, i))
        THEN [ok |-> FALSE, n |-> 0]
        ELSE [ok |-> TRUE,
              n |-> IF signed /\ Char(token, 1) = "-"
                    THEN 0 - DecimalValue(digits, 0) ELSE DecimalValue(digits, 0)]

decodeJSONPointerToken_tildeFirst(token) == ReplaceAll(ReplaceAll(token, "~0", "~"), "~1", "/")

\* decodeJSONPointerToken(token)
decodeJSONPointerToken(token) == ReplaceAll(ReplaceAll(token, "~1", "/"), "~0", "~")

NotFound == [ok |-> FALSE, value |-> JNull]
Found(v) == [ok |-> TRUE, value |-> v]

\* the loop of resolveJSONPointer over the tokens
RECURSIVE WalkPointer(_, _)
WalkPointer(current, tokens) ==
    IF tokens = <<>> THEN Found(current)
    ELSE LET token == decodeJSONPointerToken(Head(tokens))
         IN  IF current.k = "obj"
             THEN IF token \notin DOMAIN current.v THEN NotFound
                  ELSE WalkPointer(current.v[token], Tail(tokens))
             ELSE IF current.k = "arr"
             THEN LET index == Atoi(token)
                  IN  IF ~index.ok \/ index.n < 0 \/ index.n >= Len(current.v) THEN NotFound
                      ELSE WalkPointer(current.v[index.n + 1], Tail(tokens))
             ELSE NotFound

resolveJSONPointer_anyPrefix(root, ref) ==
    LET r == TrimSpace(ref)
    IN  IF r = "#" THEN Found(root)
        ELSE WalkPointer(root, Split(TrimPrefix(r, "#/"), "/"))

\* resolveJSONPointer(root, ref)
resolveJSONPointer(root, ref) ==
    LET r == TrimSpace(ref)
    IN  IF r = "#" THEN Found(root)
        ELSE IF ~HasPrefix(r, "#/") THEN NotFound
        ELSE WalkPointer(root, Split(TrimPrefix(r, "#/"), "/"))

\* exampleBuilder.resolveLocalReference(ref) on document doc
resolveLocalReference(doc, ref) ==
    LET r == TrimSpace(ref)
    IN  IF r = "" \/ ~HasPrefix(r, "#") THEN NotFound
        ELSE IF DOMAIN doc.RawKeywords = {} THEN NotFound
        ELSE LET raw == resolveJSONPointer(JObj(doc.RawKeywords), r)
             IN  IF ~raw.ok THEN NotFound
                 ELSE [ok |-> SchemaOk(raw.value), value |-> toSchemaValue(raw.value)]

\* stripReferenceKeyword(object)
stripReferenceKeyword(object) == Without(object, "$ref")

mergeSchemaObjects_baseWins(base, overlay) ==
    [key \in DOMAIN base \cup ((DOMAIN overlay) \ {"$ref"}) |->
        IF key \in DOMAIN base THEN base[key] ELSE overlay[key]]

\* mergeSchemaObjects(base, overlay)
mergeSchemaObjects(base, overlay) ==
    [key \in DOMAIN base \cup ((DOMAIN overlay) \ {"$ref"}) |->
        IF key \in (DOMAIN overlay) \ {"$ref"} THEN overlay[key] ELSE base[key]]

ActiveCount(active, ref) == IF ref \in DOMAIN active THEN active[ref] ELSE 0

enterReference_noGuard(active, ref) ==
    LET key == TrimSpace(ref)
    IN  IF key = "" THEN [ok |-> TRUE, release |-> "", active |-> active]
        ELSE [ok |-> TRUE, release |-> key,
              active |-> [x \in DOMAIN active \cup {key} |->
                            IF x = key THEN ActiveCount(active, key) + 1 ELSE active[x]]]

\* exampleBuilder.enterReference(ref): release is the key the callback releases
\* ("" for the nil callback)
enterReference(active, ref) ==
    LET key == TrimSpace(ref)
    IN  IF key = "" THEN [ok |-> TRUE, release |-> "", active |-> active]
        ELSE IF ActiveCount(active, key) > 0 THEN [ok |-> FALSE, release |-> "", active |-> active]
        ELSE [ok |-> TRUE, release |-> key,
              active |-> [x \in DOMAIN active \cup {key} |->
                            IF x = key THEN ActiveCount(active, key) + 1 ELSE active[x]]]

ReleaseReference_keepZero(active, key) ==
    IF key = "" THEN active
    ELSE [active EXCEPT ![key] = active[key] - 1]

\* the release callback of enterReference
ReleaseReference(active, key) ==
    IF key = "" THEN active
    ELSE IF ActiveCount(active, key) - 1 <= 0
    THEN [x \in (DOMAIN active) \ {key} |-> active[x]]
    ELSE [active EXCEPT ![key] = active[key] - 1]

resolvedObjectForReference_failOnDangling(doc, object, active) ==
    LET ref == asString(Get(object, "$ref"))
        target == resolveLocalReference(doc, ref)
        entered == enterReference(active, ref)
    IN  IF ref = "" THEN [handled |-> FALSE]
        ELSE IF ~target.ok \/ ~IsObject(target.value) \/ ~entered.ok
        THEN [handled |-> TRUE, resolved |-> JNull, release |-> "", active |-> active]
        ELSE [handled |-> TRUE,
              resolved |-> JObj(mergeSchemaObjects(target.value.v, object)),
              release |-> entered.release,
              active |-> entered.active]

\* exampleBuilder.resolvedObjectForReference(object): resolved is JNull for nil
resolvedObjectForReference(doc, object, active) ==
    LET ref == asString(Get(object, "$ref"))
        target == resolveLocalReference(doc, ref)
        entered == enterReference(active, ref)
    IN  IF ref = "" THEN [handled |-> FALSE]
        ELSE IF ~target.ok \/ ~IsObject(target.value)
        THEN [handled |-> TRUE, resolved |-> JObj(stripReferenceKeyword(object)),
              release |-> "", active |-> active]
        ELSE IF ~entered.ok
        THEN [handled |-> TRUE, resolved |-> JNull, release |-> "", active |-> active]
        ELSE [handled |-> TRUE,
              resolved |-> JObj(mergeSchemaObjects(target.value.v, object)),
              release |-> entered.release,
              active |-> entered.active]

-----------------------------------------------------------------------------
(* Example synthesis: shapes and values.                                   *)

\* schemaTypeName(object)
schemaTypeName(object) ==
    IF "type" \notin DOMAIN object THEN ""
    ELSE LET typeValue == object["type"]
             text == ToLower(asString(typeValue))
             items == asSlice(typeValue)
             named == {i \in 1..Len(items) : ToLower(asString(items[i])) \notin {"", "null"}}
         IN  IF text # "" THEN text
             ELSE IF named # {} THEN ToLower(asString(items[MinOf(named)]))
             ELSE IF \E i \in 1..Len(items) : ToLower(asString(items[i])) = "null" THEN "null"
             ELSE ""

\* hasArrayShape(object)
hasArrayShape(object) ==
    SchemaOk(Get(object, "items")) \/ Len(asSlice(Get(object, "prefixItems"))) > 0

explicitExampleValue_exampleFirst(object) ==
    IF "example" \in DOMAIN object THEN Found(object["example"])
    ELSE IF Len(asSlice(Get(object, "examples"))) > 0 THEN Found(asSlice(Get(object, "examples"))[1])
    ELSE IF "default" \in DOMAIN object THEN Found(object["default"])
    ELSE NotFound

\* explicitExampleValue(object)
explicitExampleValue(object) ==
    IF "default" \in DOMAIN object THEN Found(object["default"])
    ELSE IF Len(asSlice(Get(object, "examples"))) > 0 THEN Found(asSlice(Get(object, "examples"))[1])
    ELSE IF "example" \in DOMAIN object THEN Found(object["example"])
    ELSE NotFound

\* constExampleValue(object)
constExampleValue(object) ==
    IF "const" \in DOMAIN object THEN Found(object["const"]) ELSE NotFound

\* enumExampleValue(object)
enumExampleValue(object) ==
    IF Len(asSlice(Get(object, "enum"))) = 0 THEN NotFound
    ELSE Found(asSlice(Get(object, "enum"))[1])

scalarPlaceholder_empty(schemaType) ==
    IF schemaType = "string" THEN Found(JStr(""))
    ELSE IF schemaType \in {"number", "integer"} THEN Found(JNum(0))
    ELSE IF schemaType = "boolean" THEN Found(JBool(FALSE))
    ELSE IF schemaType = "null" THEN Found(JNull)
    ELSE NotFound

\* scalarPlaceholder(schemaType) over exampleScalarPlaceholders
scalarPlaceholder(schemaType) ==
    IF schemaType = "string" THEN Found(JStr("<string>"))
    ELSE IF schemaType \in {"number", "integer"} THEN Found(JNum(0))
    ELSE IF schemaType = "boolean" THEN Found(JBool(FALSE))
    ELSE IF schemaType = "null" THEN Found(JNull)
    ELSE NotFound

\* cloneJSONValue(value): a deep copy, equal to the value copied
RECURSIVE cloneJSONValue(_)
cloneJSONValue(value) ==
    IF value.k = "obj" THEN JObj([key \in DOMAIN value.v |-> cloneJSONValue(value.v[key])])
    ELSE IF value.k = "arr" THEN JArr([i \in 1..Len(value.v) |-> cloneJSONValue(value.v[i])])
    ELSE value

mergePropertySchemas_lastWins(left, right) ==
    [key \in DOMAIN left \cup DOMAIN right |->
        IF key \in DOMAIN right THEN right[key] ELSE left[key]]

\* mergePropertySchemas(left, right)
mergePropertySchemas(left, right) ==
    [key \in DOMAIN left \cup DOMAIN right |->
        IF key \in DOMAIN left THEN left[key] ELSE right[key]]

\* the loop of mergeRequiredKeys
RECURSIVE UniqueTrimmed(_, _)
UniqueTrimmed(keys, out) ==
    IF keys = <<>> THEN out
    ELSE LET key == TrimSpace(Head(keys))
         IN  IF key = "" \/ Contains(out, key) THEN UniqueTrimmed(Tail(keys), out)
             ELSE UniqueTrimmed(Tail(keys), Append(out, key))

\* mergeRequiredKeys(left, right)
mergeRequiredKeys(left, right) == UniqueTrimmed(left \o right, <<>>)

Shape(properties, required) == [k |-> "shape", properties |-> properties, required |-> required]
EmptyShape == Shape(EmptyMap, <<>>)

CompositionBranch_objectsOnly(object) ==
    LET members(kw) == SelectSeq(asSlice(Get(object, kw)), IsObject)
    IN  IF members("oneOf") # <<>> THEN Found(members("oneOf")[1])
        ELSE IF members("anyOf") # <<>> THEN Found(members("anyOf")[1])
        ELSE IF members("allOf") # <<>> THEN Found(members("allOf")[1])
        ELSE NotFound

\* the first schema-like member buildCompositionFallback builds from
CompositionBranch(object) ==
    LET members(kw) == SelectSeq(asSlice(Get(object, kw)), SchemaOk)
    IN  IF members("oneOf") # <<>> THEN Found(members("oneOf")[1])
        ELSE IF members("anyOf") # <<>> THEN Found(members("anyOf")[1])
        ELSE IF members("allOf") # <<>> THEN Found(members("allOf")[1])
        ELSE NotFound

normalizeExampleMode_noTrim(mode) ==
    LET normalized == ToLower(mode)
    IN  IF normalized \in {"all", "required"} THEN [mode |-> normalized, err |-> ""]
        ELSE [mode |-> "", err |-> "ErrUnknownExampleMode"]

\* normalizeExampleMode(mode)
normalizeExampleMode(mode) ==
    LET normalized == ToLower(TrimSpace(mode))
    IN  IF normalized \in {"all", "required"} THEN [mode |-> normalized, err |-> ""]
        ELSE [mode |-> "", err |-> "ErrUnknownExampleMode"]

-----------------------------------------------------------------------------
(* GenerateExampleJSON / GenerateExampleYAML: the call stack of the builder.
   A frame is one activation of a builder method; a call in return position
   replaces the caller's frame, any other call pushes a frame and the caller
   goes on when that frame has been popped and ret holds what it returned. *)

MaxStack == 16

RawModes == {"all", "required", "ALL", " Required\n", "\tall ", "", " ", "broken",
             "al l", "all,required", "requiredx", "a"}

ExampleCalls ==
    {[fn |-> "GenerateExampleJSON", schema |-> d, mode |-> m] :
        d \in ExampleDocs, m \in {"all", "required"}}
    \cup {[fn |-> f, schema |-> [doc |-> n], mode |-> m] :
            f \in {"GenerateExampleJSON", "GenerateExampleYAML"},
            n \in {"localRefs", "fixture", "number"}, m \in RawModes}
    \cup {[fn |-> "GenerateExampleYAML", mode |-> "all",
           schema |-> [doc |-> "cycle", root |-> "#/$defs/A", x |-> lx, allOf |-> la, y |-> ly,
                       required |-> <<"x">>]] :
            lx \in {"B", " A ", "[A]"}, la \in {"none", "B"}, ly \in {"string", "A", "[B,A]"}}

ExampleDoc == parseDocument(Schema(call.schema))
BuilderMode == normalizeExampleMode(call.mode).mode

Top == stack[Len(stack)]
Pop == SubSeq(stack, 1, Len(stack) - 1)
Replace(frame) == [stack EXCEPT ![Len(stack)] = frame]
Running(fn, at) == pc = "build" /\ stack # <<>> /\ Top.fn = fn /\ Top.at = at

BuildNodeFrame(node) == [fn |-> "buildNode", at |-> "entry", node |-> node, release |-> ""]
CollectShapeFrame(node) ==
    [fn |-> "collectObjectShape", at |-> "entry", node |-> node, release |-> ""]

InitExample ==
    /\ pc = "call"
    /\ call \in ExampleCalls
    /\ result = JNull
    /\ err = ""
    /\ previous = JNull
    /\ parked = Nobody
    /\ runner = NoRunner
    /\ BuilderIdle
    /\ RenderIdle

\* generateExampleValue / GenerateExampleYAML: the mode is no example mode
ExampleModeError ==
    /\ pc = "call"
    /\ call.fn \in {"GenerateExampleJSON", "GenerateExampleYAML"}
    /\ normalizeExampleMode(call.mode).err # ""
    /\ pc' = "error"
    /\ err' = normalizeExampleMode(call.mode).err
    /\ UNCHANGED <<call, result, previous, parked, runner, builderVars, renderVars>>

\* generateExampleValue / GenerateExampleYAML: parseDocument fails
ExampleParseError ==
    /\ pc = "call"
    /\ call.fn \in {"GenerateExampleJSON", "GenerateExampleYAML"}
    /\ normalizeExampleMode(call.mode).err = ""
    /\ ParseFails(Schema(call.schema))
    /\ pc' = "error"
    /\ err' = "ErrSchemaRootType"
    /\ UNCHANGED <<call, result, previous, parked, runner, builderVars, renderVars>>

\* generateExampleValue / GenerateExampleYAML: the builder is made and buildNode
\* is called on the root
StartExample ==
    /\ pc = "call"
    /\ call.fn \in {"GenerateExampleJSON", "GenerateExampleYAML"}
    /\ normalizeExampleMode(call.mode).err = ""
    /\ ~ParseFails(Schema(call.schema))
    /\ pc' = "build"
    /\ stack' = <<BuildNodeFrame(ExampleDoc.Root)>>
    /\ activeRefs' = EmptyMap
    /\ ret' = JNull
    /\ UNCHANGED <<call, result, err, previous, parked, runner, rootNode, renderVars>>

\* buildNode up to its return or its recursive call
BuildNodeEnter ==
    /\ Running("buildNode", "entry")
    /\ Len(stack) < MaxStack
    /\ LET node == Top.node
           r == resolvedObjectForReference(ExampleDoc, node.v, activeRefs)
       IN  IF ~IsObject(node)
           THEN stack' = Pop /\ ret' = JNull /\ UNCHANGED activeRefs
           ELSE IF ~r.handled
           THEN /\ stack' = Replace([fn |-> "buildFromObject", at |-> "entry", object |-> node.v])
                /\ UNCHANGED <<activeRefs, ret>>
           ELSE IF r.resolved = JNull
           THEN stack' = Pop /\ ret' = JNull /\ UNCHANGED activeRefs
           ELSE /\ stack' = Append(Replace([Top EXCEPT !.at = "deferred", !.release = r.release]),
                                   BuildNodeFrame(r.resolved))
                /\ activeRefs' = r.active
                /\ UNCHANGED ret
    /\ UNCHANGED <<pc, call, result, err, previous, parked, runner, rootNode, renderVars>>

\* buildNode: the recursive call has returned, the deferred release runs
BuildNodeReturn ==
    /\ Running("buildNode", "deferred")
    /\ stack' = Pop
    /\ activeRefs' = ReleaseReference(activeRefs, Top.release)
    /\ UNCHANGED <<ret, pc, call, result, err, previous, parked, runner, rootNode, renderVars>>

\* buildFromObject up to its call of collectObjectShape
BuildFromObjectEnter ==
    /\ Running("buildFromObject", "entry")
    /\ Len(stack) < MaxStack
    /\ stack' = Append(Replace([Top EXCEPT !.at = "shape"]), CollectShapeFrame(JObj(Top.object)))
    /\ UNCHANGED <<activeRefs, ret, pc, call, result, err, previous, parked, runner, rootNode, renderVars>>

\* the property order buildObjectFromShape works through
ShapeOrder(properties, required, iter) ==
    IF BuilderMode = "required" THEN requiredPropertyOrder(required, properties)
    ELSE propertyOrder(required, properties, iter)

\* the items buildArrayFromObject builds from: prefixItems, else the one items schema
ArrayItems(object) ==
    IF Len(asSlice(Get(object, "prefixItems"))) > 0 THEN asSlice(Get(object, "prefixItems"))
    ELSE IF SchemaOk(Get(object, "items")) THEN <<Get(object, "items")>>
    ELSE <<>>

ArrayValue_constFirst(object) ==
    LET isArray(found) == found.ok /\ found.value.k = "arr"
    IN  IF isArray(constExampleValue(object)) THEN Found(cloneJSONValue(constExampleValue(object).value))
        ELSE IF isArray(explicitExampleValue(object)) THEN Found(cloneJSONValue(explicitExampleValue(object).value))
        ELSE IF isArray(enumExampleValue(object)) THEN Found(cloneJSONValue(enumExampleValue(object).value))
        ELSE IF ArrayItems(object) = <<>> THEN Found(JArr(<<>>))
        ELSE NotFound

\* the value buildArrayFromObject returns without building an item, if any
ArrayValue(object) ==
    LET isArray(found) == found.ok /\ found.value.k = "arr"
    IN  IF isArray(explicitExampleValue(object)) THEN Found(cloneJSONValue(explicitExampleValue(object).value))
        ELSE IF isArray(constExampleValue(object)) THEN Found(cloneJSONValue(constExampleValue(object).value))
        ELSE IF isArray(enumExampleValue(object)) THEN Found(cloneJSONValue(enumExampleValue(object).value))
        ELSE IF ArrayItems(object) = <<>> THEN Found(JArr(<<>>))
        ELSE NotFound

BuildFromObjectShape_valueFirst ==
    /\ Running("buildFromObject", "shape")
    /\ LET object == Top.object
           schemaType == schemaTypeName(object)
           properties == ret.properties
           required == ret.required
           leaf(value) == stack' = Pop /\ ret' = value
       IN  IF explicitExampleValue(object).ok
           THEN leaf(cloneJSONValue(explicitExampleValue(object).value))
           ELSE IF schemaType = "object" \/ DOMAIN properties # {} \/ Len(required) > 0
           THEN IF DOMAIN properties = {}
                THEN leaf(JObj(EmptyMap))
                ELSE \E iter \in RangeOrders(DOMAIN properties) :
                        /\ stack' = Replace([fn |-> "buildObjectFromShape", at |-> "loop",
                                             properties |-> properties, required |-> required,
                                             order |-> ShapeOrder(properties, required, iter),
                                             out |-> EmptyMap])
                        /\ UNCHANGED ret
           ELSE IF schemaType = "array" \/ hasArrayShape(object)
           THEN IF ArrayValue(object).ok
                THEN leaf(ArrayValue(object).value)
                ELSE /\ stack' = Replace([fn |-> "buildArrayFromObject", at |-> "loop",
                                          items |-> ArrayItems(object), out |-> <<>>])
                     /\ UNCHANGED ret
           ELSE IF constExampleValue(object).ok
           THEN leaf(cloneJSONValue(constExampleValue(object).value))
           ELSE IF enumExampleValue(object).ok
           THEN leaf(cloneJSONValue(enumExampleValue(object).value))
           ELSE IF CompositionBranch(object).ok
           THEN /\ stack' = Replace(BuildNodeFrame(toSchemaValue(CompositionBranch(object).value)))
                /\ UNCHANGED ret
           ELSE IF scalarPlaceholder(schemaType).ok
           THEN leaf(scalarPlaceholder(schemaType).value)
           ELSE leaf(JNull)
    /\ UNCHANGED <<activeRefs, pc, call, result, err, previous, parked, runner, rootNode, renderVars>>

\* buildFromObject after collectObjectShape: ret holds the shape
BuildFromObjectShape ==
    /\ Running("buildFromObject", "shape")
    /\ LET object == Top.object
           schemaType == schemaTypeName(object)
           properties == ret.properties
           required == ret.required
           leaf(value) == stack' = Pop /\ ret' = value
       IN  IF schemaType = "object" \/ DOMAIN properties # {} \/ Len(required) > 0
           THEN IF DOMAIN properties = {}
                THEN leaf(JObj(EmptyMap))
                ELSE \E iter \in RangeOrders(DOMAIN properties) :
                        /\ stack' = Replace([fn |-> "buildObjectFromShape", at |-> "loop",
                                             properties |-> properties, required |-> required,
                                             order |-> ShapeOrder(properties, required, iter),
                                             out |-> EmptyMap])
                        /\ UNCHANGED ret
           ELSE IF schemaType = "array" \/ hasArrayShape(object)
           THEN IF ArrayValue(object).ok
                THEN leaf(ArrayValue(object).value)
                ELSE /\ stack' = Replace([fn |-> "buildArrayFromObject", at |-> "loop",
                                          items |-> ArrayItems(object), out |-> <<>>])
                     /\ UNCHANGED ret
           ELSE IF explicitExampleValue(object).ok
           THEN leaf(cloneJSONValue(explicitExampleValue(object).value))
           ELSE IF constExampleValue(object).ok
           THEN leaf(cloneJSONValue(constExampleValue(object).value))
           ELSE IF enumExampleValue(object).ok
           THEN leaf(cloneJSONValue(enumExampleValue(object).value))
           ELSE IF CompositionBranch(object).ok
           THEN /\ stack' = Replace(BuildNodeFrame(toSchemaValue(CompositionBranch(object).value)))
                /\ UNCHANGED ret
           ELSE IF scalarPlaceholder(schemaType).ok
           THEN leaf(scalarPlaceholder(schemaType).value)
           ELSE leaf(JNull)
    /\ UNCHANGED <<activeRefs, pc, call, result, err, previous, parked, runner, rootNode, renderVars>>

\* buildObjectFromShape: one round of its loop, from the return of the last
\* buildNode call to the next one or to the return of the object
BuildObjectFromShape ==
    /\ pc = "build" /\ stack # <<>> /\ Top.fn = "buildObjectFromShape"
    /\ Len(stack) < MaxStack
    /\ LET order == Top.order
           built == DOMAIN Top.out
           out == IF Top.at = "item"
                  THEN [key \in built \cup {Top.key} |-> IF key = Top.key THEN ret ELSE Top.out[key]]
                  ELSE Top.out
           rest == SelectSeq(order, LAMBDA key : key \notin DOMAIN out)
       IN  IF rest = <<>>
           THEN stack' = Pop /\ ret' = JObj(out)
           ELSE /\ stack' = Append(Replace([fn |-> "buildObjectFromShape", at |-> "item",
                                            properties |-> Top.properties,
                                            required |-> Top.required, order |-> order,
                                            out |-> out, key |-> Head(rest)]),
                                   BuildNodeFrame(Top.properties[Head(rest)]))
                /\ UNCHANGED ret
    /\ UNCHANGED <<activeRefs, pc, call, result, err, previous, parked, runner, rootNode, renderVars>>

\* the prefixItems that are no schema yield nil without a call
RECURSIVE NilItems(_, _)
NilItems(items, out) ==
    IF Len(out) < Len(items) /\ ~SchemaOk(items[Len(out) + 1])
    THEN NilItems(items, Append(out, JNull))
    ELSE out

\* buildArrayFromObject: one round of its loop over the item schemas
BuildArrayFromObject ==
    /\ pc = "build" /\ stack # <<>> /\ Top.fn = "buildArrayFromObject"
    /\ Len(stack) < MaxStack
    /\ LET items == Top.items
           out == NilItems(items, IF Top.at = "item" THEN Append(Top.out, ret) ELSE Top.out)
       IN  IF Len(out) = Len(items)
           THEN stack' = Pop /\ ret' = JArr(out)
           ELSE /\ stack' = Append(Replace([Top EXCEPT !.at = "item", !.out = out]),
                                   BuildNodeFrame(toSchemaValue(items[Len(out) + 1])))
                /\ UNCHANGED ret
    /\ UNCHANGED <<activeRefs, pc, call, result, err, previous, parked, runner, rootNode, renderVars>>

\* collectObjectShape up to its return or its call
CollectObjectShapeEnter ==
    /\ Running("collectObjectShape", "entry")
    /\ Len(stack) < MaxStack
    /\ LET node == Top.node
           r == resolvedObjectForReference(ExampleDoc, node.v, activeRefs)
       IN  IF ~IsObject(node)
           THEN stack' = Pop /\ ret' = EmptyShape /\ UNCHANGED activeRefs
           ELSE IF ~r.handled
           THEN /\ stack' = Replace([fn |-> "collectObjectShapeFromObject", at |-> "loop",
                                     allOf |-> asSlice(Get(node.v, "allOf")), i |-> 1,
                                     properties |-> mapSchemaValues(Get(node.v, "properties")),
                                     required |-> asStringSlice(Get(node.v, "required"))])
                /\ UNCHANGED <<activeRefs, ret>>
           ELSE IF r.resolved = JNull
           THEN stack' = Pop /\ ret' = EmptyShape /\ UNCHANGED activeRefs
           ELSE /\ stack' = Append(Replace([Top EXCEPT !.at = "deferred", !.release = r.release]),
                                   CollectShapeFrame(r.resolved))
                /\ activeRefs' = r.active
                /\ UNCHANGED ret
    /\ UNCHANGED <<pc, call, result, err, previous, parked, runner, rootNode, renderVars>>

\* collectObjectShape: the recursive call has returned, the deferred release runs
CollectObjectShapeReturn ==
    /\ Running("collectObjectShape", "deferred")
    /\ stack' = Pop
    /\ activeRefs' = ReleaseReference(activeRefs, Top.release)
    /\ UNCHANGED <<ret, pc, call, result, err, previous, parked, runner, rootNode, renderVars>>

\* the allOf members that are no schema are skipped
RECURSIVE NextSchema(_, _)
NextSchema(allOf, i) ==
    IF i <= Len(allOf) /\ ~SchemaOk(allOf[i]) THEN NextSchema(allOf, i + 1) ELSE i

\* collectObjectShapeFromObject: one round of its loop over the allOf members
CollectObjectShapeFromObject ==
    /\ pc = "build" /\ stack # <<>> /\ Top.fn = "collectObjectShapeFromObject"
    /\ Len(stack) < MaxStack
    /\ LET merged == Top.at = "item"
           properties == IF merged THEN mergePropertySchemas(Top.properties, ret.properties)
                         ELSE Top.properties
           required == IF merged THEN mergeRequiredKeys(Top.required, ret.required)
                       ELSE Top.required
           i == NextSchema(Top.allOf, IF merged THEN Top.i + 1 ELSE Top.i)
       IN  IF i > Len(Top.allOf)
           THEN stack' = Pop /\ ret' = Shape(properties, required)
           ELSE /\ stack' = Append(Replace([Top EXCEPT !.at = "item", !.i = i,
                                                        !.properties = properties,
                                                        !.required = required]),
                                   CollectShapeFrame(toSchemaValue(Top.allOf[i])))
                /\ UNCHANGED ret
    /\ UNCHANGED <<activeRefs, pc, call, result, err, previous, parked, runner, rootNode, renderVars>>

\* generateExampleValue returns what buildNode returned for the root
FinishExample ==
    /\ pc = "build"
    /\ stack = <<>>
    /\ call.fn = "GenerateExampleJSON"
    /\ pc' = "done"
    /\ result' = ret
    /\ UNCHANGED <<call, err, previous, parked, runner, builderVars, renderVars>>

-----------------------------------------------------------------------------
(* GenerateExampleYAML: the yaml.Node tree and the annotation pass.  A node
   is addressed by its path of Content indices from the root node, so that
   a comment set on a key node is set in the one tree of the call. *)

\* strconv.Itoa
RECURSIVE FormatDigits(_)
FormatDigits(n) ==
    IF n < 10 THEN Char(Digits, n + 1)
    ELSE FormatDigits(n \div 10) \o Char(Digits, (n % 10) + 1)
Itoa(n) == IF n < 0 THEN "-" \o FormatDigits(0 - n) ELSE FormatDigits(n)

\* strings.Join(lines, sep)
RECURSIVE Join(_, _)
Join(lines, sep) ==
    IF lines = <<>> THEN ""
    ELSE IF Len(lines) = 1 THEN lines[1]
    ELSE lines[1] \o sep \o Join(Tail(lines), sep)

\* yamlScalarNode(tag, value)
yamlScalarNode(tag, value) ==
    [Kind |-> "ScalarNode", Tag |-> tag, Value |-> value, HeadComment |-> "", Content |-> <<>>]

\* sortedKeys(values)
sortedKeys(values) == SortStrings(AnyOrder(DOMAIN values))

\* yamlNodeForValue(value): numbers are integers here
RECURSIVE yamlNodeForValue(_)
RECURSIVE MappingContent(_, _)
MappingContent(keys, values) ==
    IF keys = <<>> THEN <<>>
    ELSE <<yamlScalarNode("!!str", Head(keys)), yamlNodeForValue(values[Head(keys)])>>
         \o MappingContent(Tail(keys), values)

yamlNodeForValue(value) ==
    CASE value.k = "null" -> yamlScalarNode("!!null", "null")
      [] value.k = "bool" -> yamlScalarNode("!!bool", IF value.v THEN "true" ELSE "false")
      [] value.k = "str" -> yamlScalarNode("!!str", value.v)
      [] value.k = "num" -> yamlScalarNode("!!int", Itoa(value.v))
      [] value.k = "obj" ->
            [Kind |-> "MappingNode", Tag |-> "!!map", Value |-> "", HeadComment |-> "",
             Content |-> MappingContent(sortedKeys(value.v), value.v)]
      [] value.k = "arr" ->
            [Kind |-> "SequenceNode", Tag |-> "!!seq", Value |-> "", HeadComment |-> "",
             Content |-> [i \in 1..Len(value.v) |-> yamlNodeForValue(value.v[i])]]

\* the node a path of Content indices leads to
RECURSIVE NodeAt(_, _)
NodeAt(node, path) ==
    IF path = <<>> THEN node ELSE NodeAt(node.Content[Head(path)], Tail(path))

\* keyNode.HeadComment = comment on the node the path leads to
RECURSIVE SetHeadComment(_, _, _)
SetHeadComment(node, path, comment) ==
    IF path = <<>> THEN [node EXCEPT !.HeadComment = comment]
    ELSE [node EXCEPT !.Content[Head(path)] = SetHeadComment(@, Tail(path), comment)]

\* normalizeYAMLComment(comment)
normalizeYAMLComment(comment) ==
    LET lines == Split(comment, "\n")
        filled == {i \in 1..Len(lines) : TrimSpace(lines[i]) # ""}
    IN  IF filled = {} THEN ""
        ELSE Join(SelectSeq(SubSeq(lines, MinOf(filled), MaxOf(filled)),
                            LAMBDA line : TrimSpace(line) # ""), "\n")

schemaKeyComment_emptyLine(schema) ==
    IF ~IsObject(schema) THEN ""
    ELSE LET title == TrimSpace(asString(Get(schema.v, "title")))
             description == TrimSpace(asString(Get(schema.v, "description")))
         IN  IF title = "" /\ description = "" THEN ""
             ELSE IF title = "" THEN normalizeYAMLComment(description)
             ELSE IF description = "" THEN normalizeYAMLComment(title)
             ELSE IF title = description THEN normalizeYAMLComment(title)
             ELSE normalizeYAMLComment(title) \o "\n\n" \o normalizeYAMLComment(description)

\* schemaKeyComment(schema)
schemaKeyComment(schema) ==
    IF ~IsObject(schema) THEN ""
    ELSE LET title == TrimSpace(asString(Get(schema.v, "title")))
             description == TrimSpace(asString(Get(schema.v, "description")))
         IN  IF title = "" /\ description = "" THEN ""
             ELSE IF title = "" THEN normalizeYAMLComment(description)
             ELSE IF description = "" THEN normalizeYAMLComment(title)
             ELSE IF title = description THEN normalizeYAMLComment(title)
             ELSE normalizeYAMLComment(title \o "\n" \o description)

sequenceItemSchema_itemsOnly(schema) ==
    IF ~IsObject(schema) THEN ZeroSchema
    ELSE IF SchemaOk(Get(schema.v, "items")) THEN toSchemaValue(Get(schema.v, "items"))
    ELSE ZeroSchema

\* sequenceItemSchema(schema)
sequenceItemSchema(schema) ==
    IF ~IsObject(schema) THEN ZeroSchema
    ELSE IF SchemaOk(Get(schema.v, "items")) THEN toSchemaValue(Get(schema.v, "items"))
    ELSE LET prefixItems == SelectSeq(asSlice(Get(schema.v, "prefixItems")), SchemaOk)
         IN  IF prefixItems # <<>> THEN toSchemaValue(prefixItems[1]) ELSE ZeroSchema

\* exampleBuilder.resolveSchemaValue(schema): release is the key the callback
\* releases ("" for the nil callback)
resolveSchemaValue(doc, schema, active) ==
    IF ~IsObject(schema) THEN [resolved |-> schema, release |-> "", active |-> active]
    ELSE LET r == resolvedObjectForReference(doc, schema.v, active)
         IN  IF ~r.handled THEN [resolved |-> schema, release |-> "", active |-> active]
             ELSE [resolved |-> r.resolved, release |-> r.release, active |-> r.active]

AnnotateFrame(path, schema) ==
    [fn |-> "annotateYAMLNode", at |-> "entry", path |-> path, schema |-> schema,
     resolved |-> ZeroSchema, release |-> "", index |-> 1]

Annotating(at) ==
    pc = "annotate" /\ stack # <<>> /\ Top.fn = "annotateYAMLNode" /\ Top.at = at

\* GenerateExampleYAML: buildNode has returned, the value becomes a node tree and
\* annotateYAMLNode is called on its root
StartAnnotate ==
    /\ pc = "build"
    /\ stack = <<>>
    /\ call.fn = "GenerateExampleYAML"
    /\ pc' = "annotate"
    /\ rootNode' = yamlNodeForValue(ret)
    /\ stack' = <<AnnotateFrame(<<>>, ExampleDoc.Root)>>
    /\ UNCHANGED <<activeRefs, ret, call, result, err, previous, parked, runner, renderVars>>

\* annotateYAMLNode: resolveSchemaValue and the deferral of its release
AnnotateEnter ==
    /\ Annotating("entry")
    /\ LET r == resolveSchemaValue(ExampleDoc, Top.schema, activeRefs)
       IN  /\ stack' = Replace([Top EXCEPT !.at = "loop", !.resolved = r.resolved,
                                           !.release = r.release])
           /\ activeRefs' = r.active
    /\ UNCHANGED <<ret, rootNode, pc, call, result, err, previous, parked, runner, renderVars>>

\* annotateYAMLNode: one round of the loop over the keys of a mapping or the items
\* of a sequence, up to the next recursive call or to the return, where the
\* deferred release runs
AnnotateNode ==
    /\ Annotating("loop")
    /\ Len(stack) < MaxStack
    /\ LET node == NodeAt(rootNode, Top.path)
           properties == nodeProperties(Top.resolved)
           keys == {i \in 1..Len(node.Content) :
                       /\ i % 2 = 1 /\ i >= Top.index /\ i + 1 <= Len(node.Content)
                       /\ node.Content[i].Value \in DOMAIN properties}
           return == /\ stack' = Pop
                     /\ activeRefs' = ReleaseReference(activeRefs, Top.release)
                     /\ UNCHANGED rootNode
           descend(index, next, schema) ==
                     /\ stack' = Append(Replace([Top EXCEPT !.index = next]),
                                        AnnotateFrame(Append(Top.path, index), schema))
                     /\ UNCHANGED activeRefs
       IN  IF node.Kind = "MappingNode"
           THEN IF keys = {} THEN return
                ELSE LET i == MinOf(keys)
                         property == properties[node.Content[i].Value]
                         comment == schemaKeyComment(property)
                     IN  /\ rootNode' = IF comment # ""
                                        THEN SetHeadComment(rootNode, Append(Top.path, i), comment)
                                        ELSE rootNode
                         /\ descend(i + 1, i + 2, property)
           ELSE IF node.Kind = "SequenceNode"
           THEN IF Len(node.Content) = 0 \/ ~IsObject(Top.resolved) \/ Top.index > Len(node.Content)
                THEN return
                ELSE /\ descend(Top.index, Top.index + 1, sequenceItemSchema(Top.resolved))
                     /\ UNCHANGED rootNode
           ELSE return
    /\ UNCHANGED <<ret, pc, call, result, err, previous, parked, runner, renderVars>>

\* GenerateExampleYAML: the annotated tree is encoded and returned
FinishAnnotate ==
    /\ pc = "annotate"
    /\ stack = <<>>
    /\ pc' = "done"
    /\ result' = ret
    /\ UNCHANGED <<call, err, previous, parked, runner, builderVars, renderVars>>

NextExample ==
    \/ ExampleModeError
    \/ ExampleParseError
    \/ StartExample
    \/ BuildNodeEnter
    \/ BuildNodeReturn
    \/ BuildFromObjectEnter
    \/ BuildFromObjectShape
    \/ BuildObjectFromShape
    \/ BuildArrayFromObject
    \/ CollectObjectShapeEnter
    \/ CollectObjectShapeReturn
    \/ CollectObjectShapeFromObject
    \/ FinishExample
    \/ StartAnnotate
    \/ AnnotateEnter
    \/ AnnotateNode
    \/ FinishAnnotate

SpecExample == InitExample /\ [][NextExample]_vars

\* TestGenerateExampleJSONAllMode, TestGenerateExampleJSONRequiredMode: the
\* example the tests expect of the fixture
FixtureExample(mode) ==
    IF mode = "required"
    THEN JObj(("name" :> JStr("demo")) @@ ("settings" :> JObj("enabled" :> JBool(TRUE))))
    ELSE JObj(("name" :> JStr("demo")) @@ ("mode" :> JStr("safe")) @@ ("count" :> JNum(0))
           @@ ("features" :> JArr(<<JStr("<string>")>>))
           @@ ("settings" :> JObj(("enabled" :> JBool(TRUE)) @@ ("note" :> JStr("<string>")))))

FixtureExpected ==
    pc = "done" /\ call.schema = [doc |-> "fixture"] => result = FixtureExample(BuilderMode)

-----------------------------------------------------------------------------
(* Synthesis and path building together.                                   *)

\* the calls on documents with reference cycles, and one call for every way a
\* call can end
CyclicCall ==
    \/ call.schema.doc = "cycle" /\ call.mode = "all"
    \/ call.schema.doc = "graph" /\ call.schema.a \in {"A", "Config"}
    \/ call.schema.doc \in {"selfRoot", "danglingRoot", "chain", "localRefs", "number"}

InitTermination == (InitExample \/ InitRender) /\ CyclicCall
NextTermination == NextExample \/ NextRender
SpecTermination == InitTermination /\ [][NextTermination]_vars

-----------------------------------------------------------------------------
(* Claims on example synthesis.                                            *)

ExampleDone == pc = "done" /\ call.fn \in {"GenerateExampleJSON", "GenerateExampleYAML"}

\* the node carries a reference whose trimmed string is in the activation set
RefActive(node) ==
    /\ IsObject(node)
    /\ asString(Get(node.v, "$ref")) # ""
    /\ ActiveCount(activeRefs, TrimSpace(asString(Get(node.v, "$ref")))) > 0

\* the root is a reference to a definition one of whose properties is a
\* reference to that definition
SelfProperty ==
    IF call.schema.doc # "cycle" THEN ""
    ELSE IF call.schema.root = "#/$defs/A" /\ call.schema.x \in {"A", " A ", "A+"} THEN "x"
    ELSE IF call.schema.root = "#/$defs/B" /\ call.schema.y = "B" THEN "y"
    ELSE ""

\* C1: a buildNode or collectObjectShape entered on a node whose reference is
\* active returns at once, null or the empty shape, with nothing expanded and the
\* activation set untouched; and the example of a definition with a property
\* that refers to the definition is an object whose value for that property,
\* always emitted in all mode, is null wherever it is emitted.
C1_CycleGuard ==
    [][/\ Running("buildNode", "entry") /\ RefActive(Top.node)
            => stack' = Pop /\ ret' = JNull /\ activeRefs' = activeRefs
       /\ Running("collectObjectShape", "entry") /\ RefActive(Top.node)
            => stack' = Pop /\ ret' = EmptyShape /\ activeRefs' = activeRefs
       /\ pc = "build" /\ pc' = "done" /\ SelfProperty # ""
            => /\ result'.k = "obj"
               /\ BuilderMode = "all" => SelfProperty \in DOMAIN result'.v
               /\ SelfProperty \in DOMAIN result'.v => result'.v[SelfProperty] = JNull]_vars

C1_Witness ==
    /\ ExampleDone
    /\ call.schema.doc = "cycle"
    /\ call.schema.root = "#/$defs/A" /\ call.schema.x = "A" /\ call.schema.allOf = "A"
    /\ BuilderMode = "required"
    /\ result = JObj("x" :> JNull)

Terminal == pc \in {"done", "error"}

\* a step can be taken: the guards of the actions
CanStep ==
    \/ pc \in {"call", "view"}
    \/ pc = "done" /\ call.fn = "render" /\ previous = JNull
    \/ pc \in {"build", "annotate"} /\ (stack = <<>> \/ Len(stack) < MaxStack)
    \/ pc = "bfs" /\ (queue = <<>> \/ Head(queue).Depth <= maxDepth)

\* C2: every synthesis run and every path-building run, on cyclic documents
\* too, takes finitely many steps and stops only at its end; the call stack stays
\* below the bound of the model, no reference is ever active twice and no queue
\* item lies deeper than the cap.
C2_Terminates ==
    /\ <>[][FALSE]_vars
    /\ [](Terminal \/ CanStep)
    /\ [](Len(stack) < MaxStack)
    /\ [](\A r \in DOMAIN activeRefs : activeRefs[r] = 1)
    /\ [](\A i \in 1..Len(queue) : queue[i].Depth <= maxDepth)

C2_Witness ==
    /\ ExampleDone
    /\ call.schema = [doc |-> "selfRoot", root |-> "#"]
    /\ BuilderMode = "all"
    /\ result = JNull

\* the keys the mode lets through
ExpectedKeys(properties, required) ==
    IF BuilderMode = "required" THEN Range(required) \cap DOMAIN properties
    ELSE DOMAIN properties

ObjectShaped(object, shape) ==
    schemaTypeName(object) = "object" \/ DOMAIN shape.properties # {} \/ Len(shape.required) > 0

\* C3: whenever the builder returns the object of a node with merged shape
\* (P, R), at any nesting depth, the object's keys are the names of R that are keys
\* of P in required mode and the keys of P in all mode; the fixture of the tests
\* yields the objects the tests expect.
C3_KeySets ==
    [][/\ pc = "build" /\ stack # <<>> /\ Top.fn = "buildObjectFromShape" /\ stack' = Pop
            => /\ ret'.k = "obj"
               /\ DOMAIN ret'.v = ExpectedKeys(Top.properties, Top.required)
       /\ Running("buildFromObject", "shape") /\ ObjectShaped(Top.object, ret) /\ stack' = Pop
            => /\ ret'.k = "obj"
               /\ DOMAIN ret'.v = ExpectedKeys(ret.properties, ret.required)
       /\ Running("buildFromObject", "shape") /\ ObjectShaped(Top.object, ret) /\ stack' # Pop
            => /\ Top'.fn = "buildObjectFromShape"
               /\ Top'.properties = ret.properties
               /\ Top'.required = ret.required
       /\ pc = "build" /\ pc' = "done" => FixtureExpected']_vars

C3_Witness ==
    /\ ExampleDone
    /\ call.schema.doc = "cycle"
    /\ call.schema.root = "#/$defs/A" /\ call.schema.allOf = "B" /\ call.schema.y = "string"
    /\ call.schema.x = "B" /\ call.schema.required = <<"x">>
    /\ BuilderMode = "required"
    /\ result = JObj(("x" :> JObj("y" :> JStr("<string>")))
                  @@ ("y" :> JStr("<string>")) @@ ("z" :> JNum(0)))

\* C4: the document of TestGenerateExampleJSONSupportsLocalDefinitionRefs gives,
\* in required mode, exactly the object {name: "<string>"}.
C4_LocalRefs ==
    ExampleDone /\ call.schema = [doc |-> "localRefs"] /\ BuilderMode = "required"
        => result = JObj("name" :> JStr("<string>"))

C4_Witness ==
    /\ ExampleDone /\ call.schema = [doc |-> "localRefs"] /\ call.mode = "required"
    /\ result = JObj("name" :> JStr("<string>"))

\* the raw modes that, trimmed and lower-cased, read all or required
ModesMeaningAll == {"all", "ALL", "\tall "}
ModesMeaningRequired == {"required", " Required\n"}

ExampleCall == call.fn \in {"GenerateExampleJSON", "GenerateExampleYAML"}

\* C9: a call with a mode that reads all or required is never refused for its
\* mode and builds in that mode; with any other mode, the empty one too, the call
\* ends with ErrUnknownExampleMode before anything is built and returns no example.
C9_ModeValidation ==
    ExampleCall /\ pc # "call" =>
        /\ call.mode \in ModesMeaningAll =>
              /\ err # "ErrUnknownExampleMode"
              /\ pc = "done" /\ call.schema = [doc |-> "fixture"] => result = FixtureExample("all")
        /\ call.mode \in ModesMeaningRequired =>
              /\ err # "ErrUnknownExampleMode"
              /\ pc = "done" /\ call.schema = [doc |-> "fixture"]
                    => result = FixtureExample("required")
        /\ call.mode \notin ModesMeaningAll \cup ModesMeaningRequired =>
              /\ pc = "error" /\ err = "ErrUnknownExampleMode"
              /\ result = JNull /\ stack = <<>>

C9_Witness ==
    /\ call.fn = "GenerateExampleYAML" /\ call.mode = "" /\ call.schema = [doc |-> "number"]
    /\ pc = "error" /\ err = "ErrUnknownExampleMode" /\ result = JNull

DanglingCall == ExampleCall /\ call.schema.doc = "dangling"

\* what the keywords next to the reference yield by themselves
SiblingExample(sib) ==
    CASE sib = "none" -> JNull
      [] sib = "string" -> JStr("<string>")
      [] sib = "object" -> IF BuilderMode = "required" THEN JObj("q" :> JStr("<string>"))
                           ELSE JObj(("q" :> JStr("<string>")) @@ ("r" :> JBool(FALSE)))

\* the example of the document with an unresolvable reference at the position,
\* given the value of the branch and the properties its shape adds
DanglingExample(position, branch, added) ==
    LET a(p) == JObj(("n" :> JStr("<string>")) @@ ("p" :> p) @@ added)
    IN  CASE position = "root" -> branch
          [] position = "property" -> a(branch)
          [] position = "items" -> a(JArr(<<branch>>))
          [] position = "allOf" -> a(JBool(FALSE))

Empty == {JNull, JObj(EmptyMap), JArr(<<>>), JStr("")}

\* C10 as it is stated: no error, and the branch of the unresolvable reference
\* is null or empty (it adds nothing to the shape when it is an allOf member)
C10_AsStated ==
    DanglingCall =>
        /\ pc # "error" /\ err = ""
        /\ pc = "done" =>
              \E branch \in Empty :
                 result = DanglingExample(call.schema.at, branch, EmptyMap)

\* C10: an unresolvable reference never fails the synthesis, whatever the way
\* it fails to resolve and wherever it stands; the node is then built from its
\* other keywords with the reference removed: null, and nothing added to the
\* shape, when there are none.
C10_DanglingReference ==
    DanglingCall =>
        /\ pc # "error" /\ err = ""
        /\ pc = "done" =>
              result = DanglingExample(call.schema.at, SiblingExample(call.schema.siblings),
                          IF call.schema.at = "allOf" /\ call.schema.siblings = "object"
                          THEN SiblingExample("object").v ELSE EmptyMap)

C10_Witness ==
    /\ DanglingCall /\ pc = "done" /\ err = ""
    /\ call.schema = [doc |-> "dangling", ref |-> "indexOutOfRange", siblings |-> "none",
                      at |-> "property"]
    /\ call.mode = "all"
    /\ result = JObj(("n" :> JStr("<string>")) @@ ("p" :> JNull))

-----------------------------------------------------------------------------
(* Claims on self-referential definitions in path building.                *)

\* the edges of definition d that lead back to d itself
SelfEdges(d) == {e \in EdgeMap(Get(RenderDefinitionMap, d)) : e.Target = d}

\* base followed by k repetitions of segment
RECURSIVE Repeated(_, _, _)
Repeated(base, segment, k) ==
    IF k = 0 THEN base ELSE appendPath(Repeated(base, segment, k - 1), segment)

\* the render calls on documents with a definition that refers to itself, and
\* one call that ends in an error
SelfReferenceCall ==
    \/ /\ call.schema.doc = "graph"
       /\ call.schema.x \in {"A", "allOf(A)"} \/ call.schema.a = "Config"
       /\ call.schema.b \in {"B", "allOf(B,A)"}
       /\ call.schema.y \in {"string", "A"}
    \/ call.schema.doc = "number"

InitSelfReference == InitRender /\ SelfReferenceCall
SpecSelfReference == InitSelfReference /\ [][NextRender]_vars

\* C11 as stated: for a definition A with a property that refers to A, directly
\* or inside allOf, the self-reference adds no access path to A's path list: no
\* recorded path of A is a recorded path of A extended by the self-referring
\* property.
C11_AsStated ==
    RenderDone =>
        \A d \in DOMAIN RenderDefinitionMap : \A e \in SelfEdges(d) :
            \A p \in Range(PathsRecorded(d)) :
                appendPath(p, e.Path) \notin Range(PathsRecorded(d))

\* C11 amended: graph building ends after finitely many steps; a self-reference
\* of the root definition adds no path (the root keeps the single empty path), a
\* self-reference of a non-root definition A adds, for every path of A reached
\* by fewer than maxDepth edges, that path extended by the self-referring
\* property, and no path of more than maxDepth edges.
C11_SelfReference ==
    /\ <>[][FALSE]_vars
    /\ [](RenderDone =>
            \A d \in DOMAIN RenderDefinitionMap : \A e \in SelfEdges(d) :
                IF d = RootDefinition
                THEN PathsRecorded(d) = <<"">>
                ELSE /\ \A w \in WalkTargets(maxDepth - 1, FALSE) :
                           w[1] = d => appendPath(w[2], e.Path) \in Range(PathsRecorded(d))
                     /\ \A p \in Range(PathsRecorded(d)) :
                           <<d, p>> \in WalkTargets(maxDepth, FALSE))

C11_Witness ==
    /\ RenderDone
    /\ call.schema = [doc |-> "graph", a |-> "A", b |-> "B", x |-> "allOf(A)", y |-> "string"]
    /\ Len(result.Paths["A"]) = maxDepth
    /\ \A k \in 0..(maxDepth - 1) : Repeated("a", "x", k) \in Range(result.Paths["A"])
    /\ Repeated("a", "x", maxDepth) \notin Range(result.Paths["A"])
    /\ result.Paths["Config"] = <<"">>

-----------------------------------------------------------------------------
(* Two calls in flight.  Every variable above is a local of the call that is
   running (the builder with its activation set, the queue, the seen set and the
   path map are made inside the call); the locals of the other call are kept
   in parked while it does not run. *)

\* the locals of the running call
Locals ==
    [pc |-> pc, call |-> call, result |-> result, err |-> err, previous |-> previous,
     stack |-> stack, activeRefs |-> activeRefs, ret |-> ret, rootNode |-> rootNode,
     paths |-> paths, seen |-> seen, queue |-> queue, defOrder |-> defOrder, view |-> view]

\* the locals of a call that has not taken a step
InitialLocals(c) ==
    [pc |-> "call", call |-> c, result |-> JNull, err |-> "", previous |-> JNull,
     stack |-> <<>>, activeRefs |-> EmptyMap, ret |-> JNull, rootNode |-> JNull,
     paths |-> EmptyMap, seen |-> {}, queue |-> <<>>, defOrder |-> <<>>, view |-> <<>>]

CallLocals_sharedRefs(own, running) == [own EXCEPT !.activeRefs = running.activeRefs]

\* what a call finds when it goes on after another call has run: the builder,
\* the queue, the seen set and the path map it made itself
CallLocals(own, running) == own

\* the calls that are run in pairs
ConcurrentCalls ==
    {[fn |-> "GenerateExampleJSON", mode |-> "all",
      schema |-> [doc |-> "cycle", root |-> "#/$defs/A", x |-> "A", allOf |-> "B", y |-> "A",
                  required |-> <<"x">>]],
     [fn |-> "GenerateExampleJSON", mode |-> "required",
      schema |-> [doc |-> "cycle", root |-> "#/$defs/B", x |-> "[A]", allOf |-> "none", y |-> "A",
                  required |-> <<"x">>]],
     [fn |-> "GenerateExampleYAML", mode |-> " Required\n", schema |-> [doc |-> "fixture"]],
     [fn |-> "GenerateExampleYAML", mode |-> "broken", schema |-> [doc |-> "fixture"]],
     [fn |-> "GenerateExampleJSON", mode |-> "all", schema |-> [doc |-> "number"]],
     [fn |-> "render", schema |-> [doc |-> "reused"]],
     [fn |-> "render", schema |-> [doc |-> "graph", a |-> "[A]", b |-> "allOf(B,A)", x |-> "B", y |-> "A"]],
     [fn |-> "render", schema |-> [doc |-> "number"]]}

InitConcurrent == (InitExample \/ InitRender) /\ call \in ConcurrentCalls

\* the caller, having run the call alone, runs it once more together with
\* another call
CallConcurrently ==
    /\ pc \in {"done", "error"}
    /\ parked = Nobody
    /\ runner = NoRunner
    /\ previous = JNull
    /\ previous' = [pc |-> pc, result |-> result, err |-> err, rootNode |-> rootNode]
    /\ \E other \in ConcurrentCalls : parked' = InitialLocals(other)
    /\ pc' = "call"
    /\ result' = JNull
    /\ err' = ""
    /\ stack' = <<>>
    /\ activeRefs' = EmptyMap
    /\ ret' = JNull
    /\ rootNode' = JNull
    /\ paths' = EmptyMap
    /\ seen' = {}
    /\ queue' = <<>>
    /\ defOrder' = <<>>
    /\ view' = <<>>
    /\ UNCHANGED <<call, runner>>

\* the scheduler lets the other call run
Switch ==
    /\ parked.pc \notin {"none", "done", "error"}
    /\ parked' = Locals
    /\ LET next == CallLocals(parked, Locals)
       IN  /\ pc' = next.pc
           /\ call' = next.call
           /\ result' = next.result
           /\ err' = next.err
           /\ previous' = next.previous
           /\ stack' = next.stack
           /\ activeRefs' = next.activeRefs
           /\ ret' = next.ret
           /\ rootNode' = next.rootNode
           /\ paths' = next.paths
           /\ seen' = next.seen
           /\ queue' = next.queue
           /\ defOrder' = next.defOrder
           /\ view' = next.view
           /\ UNCHANGED runner

NextConcurrent ==
    \/ NextExample
    \/ RenderParseError
    \/ StartRender
    \/ ExpandDefinition
    \/ SortPaths
    \/ RenderDefinition
    \/ FinishRender
    \/ CallConcurrently
    \/ Switch

SpecConcurrent == InitConcurrent /\ [][NextConcurrent]_vars

\* how a call ended: its position, what it returned, and the annotated tree
Outcome(locals) ==
    [pc |-> locals.pc, result |-> locals.result, err |-> locals.err, rootNode |-> locals.rootNode]

Ended(locals) == locals.pc \in {"done", "error"}

-----------------------------------------------------------------------------
(* Claims on the render view.                                              *)

\* the name the one definition of a document without definitions is to have
ExpectedRootName(rootRef) ==
    CASE rootRef = "#/$defs/Thing" -> "Thing"
      [] rootRef = " #/definitions/Legacy/properties/x " -> "Legacy"
      [] OTHER -> "Root"

C14_PropertyPaths ==
    RenderDone =>
        /\ \A i \in 1..Len(result.Definitions) :
              LET D == result.Definitions[i]
              IN  \A j \in 1..Len(D.Properties) :
                     LET p == D.Properties[j]
                     IN  IF D.Name = RootDefinition
                         THEN p.Paths = <<>>
                         ELSE /\ Range(p.Paths) =
                                    {b \o "." \o p.Name : b \in Range(PathsRecorded(D.Name))}
                              /\ Ascending(p.Paths)
                              /\ p.Name \notin Range(p.Paths)
                              /\ D.Name \notin DOMAIN result.Paths => p.Paths = <<>>
        /\ call.schema.doc = "reused" =>
              /\ PropertyPathsInView("Config", "spec") = <<>>
              /\ PropertyPathsInView("BuildSpec", "projects") = <<"spec.projects">>
              /\ PropertyPathsInView("BuildSettings", "sign") =
                    <<"spec.projects.[].settings.sign", "spec.settings.sign">>
              /\ PropertyPathsInView("ProjectConfig", "settings") = <<"spec.projects.[].settings">>

C14_Witness ==
    /\ RenderDone
    /\ call.schema = [doc |-> "graph", a |-> "string", b |-> "n:B", x |-> "B", y |-> "string"]
    /\ PropertyPathsInView("Config", "a") = <<>>
    /\ PropertyPathsInView("B", "y") = <<"b.n.y">>
    /\ PropertyPathsInView("A", "x") = <<>>
    /\ "A" \notin DOMAIN result.Paths

-----------------------------------------------------------------------------
(* The command line: cmd/schemadoc. cliRunner.run hands the arguments to    *)
(* the go-flags parser, which either fails or executes the selected         *)
(* command, and maps the error it gets back to the exit code.               *)

CLICommands == {"version", "mod2schema", "template", "mod2md", "schema2md"}

\* the commands whose options include the template selection group
TemplateSelecting == {"template", "mod2md", "schema2md"}

\* what the environment holds for the command: the input file is missing, the
\* schema names an unknown draft, stdout cannot be written, the type name is
\* no Go identifier
CLIEnvironments == {"ok", "missingInput", "unknownDraft", "writeFails", "invalidType"}

\* the argument lists: the command word ("" = none given), whether a help
\* flag is among them, the value of --template, the output path
CLIArgs ==
    [command : CLICommands \cup {"", "bogus"}, help : BOOLEAN,
     template : {"list", "table", "missing"}, output : {"", "out.md"}]

CLICalls == {[fn |-> "run", args |-> a, env |-> e] : a \in CLIArgs, e \in CLIEnvironments}

FlagsError(type, text) == [kind |-> "flags.Error", Type |-> type, text |-> text]
PlainError(text) == [kind |-> "error", text |-> text]

\* the errors the parser can stop with on the argument list; which one it
\* stops with when several apply depends on the order of the arguments
ParseErrors(args) ==
    {FlagsError("ErrHelp", "Usage:") : x \in {1} \cap {IF args.help THEN 1 ELSE 0}}
    \cup {FlagsError("ErrCommandRequired", "Please specify one command of:") :
            x \in {1} \cap {IF args.command = "" THEN 1 ELSE 0}}
    \cup {FlagsError("ErrUnknownCommand", "Unknown command") :
            x \in {1} \cap {IF args.command = "bogus" THEN 1 ELSE 0}}
    \cup {FlagsError("ErrInvalidChoice", "Invalid value `missing' for option `-t, --template'") :
            x \in {1} \cap {IF args.command \in TemplateSelecting /\ args.template = "missing"
                            THEN 1 ELSE 0}}
    \cup {FlagsError("ErrUnknownFlag", "unknown flag `template'") :
            x \in {1} \cap {IF args.command \in CLICommands \ TemplateSelecting
                               /\ args.template # "list"
                            THEN 1 ELSE 0}}

Fprintln(stream, text) == Append(stream, text \o "\n")

InitCLI ==
    /\ pc = "call"
    /\ call \in CLICalls
    /\ result = JNull
    /\ err = ""
    /\ previous = JNull
    /\ parked = Nobody
    /\ runner = NoRunner
    /\ BuilderIdle
    /\ RenderIdle

CLIUnchanged == UNCHANGED <<call, result, err, previous, parked, builderVars, renderVars>>

\* parser.ParseArgs up to the point where the command is executed
ParseArgs ==
    /\ pc = "call"
    /\ call.fn = "run"
    /\ IF ParseErrors(call.args) # {}
       THEN /\ \E e \in ParseErrors(call.args) : runner' = [runner EXCEPT !.err = e]
            /\ pc' = "parsed"
       ELSE /\ runner' = runner
            /\ pc' = "execute"
    /\ CLIUnchanged

Executing(command) == pc = "execute" /\ call.fn = "run" /\ call.args.command = command

\* what a command leaves behind: the error it returns, the lines it wrote
Executed(failure, out, warnings) ==
    /\ pc' = "parsed"
    /\ runner' = [runner EXCEPT !.err = failure,
                                !.stdout = runner.stdout \o out,
                                !.stderr = runner.stderr \o warnings]
    /\ CLIUnchanged

\* writing the text to stdout, or to the output file when one is named
WriteOutput(what, text, warnings) ==
    IF call.args.output = ""
    THEN IF call.env = "writeFails"
         THEN Executed(PlainError("write " \o what \o " to stdout:"), <<>>, warnings)
         ELSE Executed(NilError, <<text>>, warnings)
    ELSE Executed(NilError, <<>>, warnings)

versionCommand ==
    /\ Executing("version")
    /\ Executed(NilError, <<>>, <<>>)

runTemplate ==
    /\ Executing("template")
    /\ WriteOutput("template", "{{ template }}", <<>>)

runSchemaToMarkdownBytes ==
    WriteOutput("markdown", "# schema reference\n",
                IF call.env = "unknownDraft"
                THEN <<"warning: unsupported $schema value\n">>
                ELSE <<>>)

runSchemaToMarkdown ==
    /\ Executing("schema2md")
    /\ IF call.env = "missingInput"
       THEN Executed(PlainError("read schema input: read schema file"), <<>>, <<>>)
       ELSE runSchemaToMarkdownBytes

GenerateSchemaError == PlainError("generate schema: run module schema generator:")

runModuleToSchema ==
    /\ Executing("mod2schema")
    /\ IF call.env = "invalidType"
       THEN Executed(GenerateSchemaError, <<>>, <<>>)
       ELSE WriteOutput("schema", "{}", <<>>)

runModuleToMarkdown ==
    /\ Executing("mod2md")
    /\ IF call.env = "invalidType"
       THEN Executed(GenerateSchemaError, <<>>, <<>>)
       ELSE runSchemaToMarkdownBytes

ExitCode_one(e) == IF e = NilError THEN 0 ELSE 1

\* the exit code run returns for the error of parseCLIArgs
ExitCode(e) ==
    IF e = NilError THEN 0
    ELSE IF e.kind = "flags.Error"
         THEN IF e.Type = "ErrHelp" THEN 0 ELSE 2
         ELSE 1

\* the stream run writes the error to
ErrorStream(e) == IF e.kind = "flags.Error" /\ e.Type = "ErrHelp" THEN "stdout" ELSE "stderr"

\* cliRunner.run, after parseCLIArgs has returned
run ==
    /\ pc = "parsed"
    /\ pc' = "done"
    /\ runner' =
          IF runner.err = NilError THEN [runner EXCEPT !.code = 0]
          ELSE IF ErrorStream(runner.err) = "stdout"
               THEN [runner EXCEPT !.stdout = Fprintln(runner.stdout, runner.err.text),
                                   !.code = ExitCode(runner.err)]
               ELSE [runner EXCEPT !.stderr = Fprintln(runner.stderr, runner.err.text),
                                   !.code = ExitCode(runner.err)]
    /\ CLIUnchanged

NextCLI ==
    \/ ParseArgs
    \/ versionCommand
    \/ runTemplate
    \/ runSchemaToMarkdown
    \/ runModuleToSchema
    \/ runModuleToMarkdown
    \/ run

SpecCLI == InitCLI /\ [][NextCLI]_vars

CLIDone == pc = "done" /\ call.fn = "run"

\* C15: run returns 0 when the selected command succeeds and for a help
\* request, whose text goes to stdout; 2 when argument parsing fails, as it
\* does when no command is given or an option value is outside its choices;
\* 1 when the command itself fails. For the codes 1 and 2 the error text is
\* written to stderr, and the step that reports the error leaves stdout as
\* it was.
C15_ExitCodes ==
    /\ [](CLIDone =>
            /\ runner.err = NilError => runner.code = 0
            /\ runner.err.kind = "flags.Error" /\ runner.err.Type = "ErrHelp" =>
                  /\ runner.code = 0
                  /\ runner.stdout = <<runner.err.text \o "\n">>
                  /\ runner.stderr = <<>>
            /\ runner.err.kind = "flags.Error" /\ runner.err.Type # "ErrHelp" =>
                  runner.code = 2
            /\ runner.err.kind = "error" => runner.code = 1
            /\ ~call.args.help /\ call.args.command = "" => runner.code = 2
            /\ ~call.args.help /\ call.args.command \in TemplateSelecting
                  /\ call.args.template = "missing" => runner.code = 2
            /\ runner.code \in {1, 2} =>
                  /\ runner.stderr # <<>>
                  /\ runner.stderr[Len(runner.stderr)] = runner.err.text \o "\n")
    /\ [][pc = "parsed" /\ runner'.code \in {1, 2} => runner'.stdout = runner.stdout]_vars

\* a command that failed has been reported: exit code 1, nothing on stdout
C15_Witness ==
    /\ CLIDone
    /\ runner.code = 1
    /\ call.args.command = "schema2md"
    /\ call.env = "missingInput"
    /\ runner.stdout = <<>>

-----------------------------------------------------------------------------
(* The reference-activation set and the call stack.                         *)

\* the frames whose activation has entered a reference and not yet released it
Holding == {i \in 1..Len(stack) : "release" \in DOMAIN stack[i] /\ stack[i].release # ""}

\* the keys the frames on the stack hold
HeldKeys == {stack[i].release : i \in Holding}

BuilderRunning == pc \in {"build", "annotate"} /\ call.fn \in {"GenerateExampleJSON", "GenerateExampleYAML"}

\* C16: in every state of a synthesis or annotation run the activation set
\* holds exactly the trimmed reference strings whose expansion is in progress
\* on the call stack, each with count 1 and each held by one frame; it is
\* empty when the top-level buildNode has returned and when the top-level
\* annotateYAMLNode has returned; a step that ends the expansion of a
\* reference removes that reference and no other, and every other step
\* removes none.
C16_ActivationSet ==
    /\ [](BuilderRunning =>
            /\ DOMAIN activeRefs = HeldKeys
            /\ \A key \in DOMAIN activeRefs :
                  /\ activeRefs[key] = 1
                  /\ key # "" /\ TrimSpace(key) = key
                  /\ Cardinality({i \in Holding : stack[i].release = key}) = 1
            /\ stack = <<>> => activeRefs = EmptyMap)
    /\ [](pc = "done" /\ call.fn \in {"GenerateExampleJSON", "GenerateExampleYAML"} =>
            activeRefs = EmptyMap)
    /\ [][BuilderRunning /\ BuilderRunning' =>
            (DOMAIN activeRefs) \ (DOMAIN activeRefs')
               = IF Len(stack') < Len(stack) /\ Len(stack) \in Holding
                 THEN {Top.release} ELSE {}]_vars

\* annotation is inside two nested expansions, and a third one has been
\* refused because its reference is in the set
C16_Witness ==
    /\ pc = "annotate"
    /\ DOMAIN activeRefs = {"#/$defs/A", "#/$defs/B"}
    /\ call.schema.doc = "cycle" /\ call.schema.y = "A"
    /\ Top.fn = "annotateYAMLNode" /\ Top.at = "loop" /\ Top.resolved = JNull

-----------------------------------------------------------------------------
(* The root definition during the traversal.                                *)

\* buildDefinitionPaths is at work or has returned
PathsBuilt == call.fn = "render" /\ pc \in {"bfs", "view", "done"} /\ paths # EmptyMap

\* the definitions with an edge into the root definition
IntoRoot ==
    {d \in DOMAIN RenderDefinitionMap :
        \E e \in EdgeMap(RenderDefinitionMap[d]) : e.Target = RootDefinition}

\* C17: in every state of the breadth-first traversal and in the result the
\* path list of the root definition is the single empty path; an edge into
\* the root, from whatever definition, adds no path, no seen key and no work
\* item, so the only work item for the root is the initial one; no other
\* definition has the empty path.
C17_RootPath ==
    /\ [](PathsBuilt =>
            /\ paths[RootDefinition] = <<"">>
            /\ \A d \in (DOMAIN paths) \ {RootDefinition} : "" \notin Range(paths[d])
            /\ \A i \in 1..Len(queue) :
                  queue[i].Definition = RootDefinition =>
                      i = 1 /\ queue[i].Depth = 0 /\ queue[i].Prefix = ""
            /\ \A key \in seen : key[1] = RootDefinition => key[2] = "")
    /\ [](RenderDone /\ result.Paths # EmptyMap =>
            /\ result.Paths[RootDefinition] = <<"">>
            /\ \A d \in (DOMAIN result.Paths) \ {RootDefinition} :
                  "" \notin Range(result.Paths[d]))

\* a definition other than the root, and the root itself, have an edge into
\* the root, and the traversal has expanded both
C17_Witness ==
    /\ RenderDone
    /\ call.schema.doc = "graph"
    /\ RootDefinition \in IntoRoot
    /\ \E d \in IntoRoot \ {RootDefinition} : PathsRecorded(d) # <<>>
    /\ result.Paths[RootDefinition] = <<"">>

-----------------------------------------------------------------------------
(* The depth cap of the traversal.                                          *)

\* the work item at the head of the queue lies at the cap
AtCap == call.fn = "render" /\ pc = "bfs" /\ queue # <<>> /\ Head(queue).Depth >= maxDepth

\* C18: a work item of depth 20 or more is dropped: the step that takes it
\* from the queue adds no path, no seen key and no work item and raises no
\* error; no work item is deeper than 20 and every recorded path is the join
\* of the edge paths of a walk of at most 20 edges from the root; the
\* traversal ends, for cyclic definition graphs too, and the call returns
\* its view without error.
C18_DepthCap ==
    /\ [][AtCap => /\ queue' = Tail(queue)
                   /\ paths' = paths /\ seen' = seen
                   /\ pc' = "bfs" /\ err' = ""]_vars
    /\ [](\A i \in 1..Len(queue) : queue[i].Depth <= maxDepth)
    /\ [](RenderDone =>
            /\ err = ""
            /\ UNION {{<<d, p>> : p \in Range(result.Paths[d])} : d \in DOMAIN result.Paths}
                  \subseteq WalkTargets(maxDepth, FALSE))
    /\ <>[][FALSE]_vars

\* in the chain of 21 edges the definition 20 edges from the root has its
\* path and the one 21 edges away has none
C18_Witness ==
    /\ RenderDone
    /\ call.schema.doc = "chain"
    /\ PathsRecorded(ChainName(maxDepth)) # <<>>
    /\ PathsRecorded(ChainName(maxDepth + 1)) = <<>>

-----------------------------------------------------------------------------
(* Shape merging.                                                           *)

\* the names of a list at their first occurrence, in the order of the list
RECURSIVE FirstSeenFrom(_, _)
FirstSeenFrom(keys, i) ==
    IF i > Len(keys) THEN <<>>
    ELSE (IF \E j \in 1..(i - 1) : keys[j] = keys[i] THEN <<>> ELSE <<keys[i]>>)
         \o FirstSeenFrom(keys, i + 1)
FirstSeen(keys) == FirstSeenFrom(keys, 1)

\* the names of a list without the blanks around them, blank names left out
TrimmedNames(keys) ==
    SelectSeq([i \in 1..Len(keys) |-> TrimSpace(keys[i])], LAMBDA key : key # "")

\* collectObjectShapeFromObject takes a step
MergingShape == pc = "build" /\ stack # <<>> /\ Top.fn = "collectObjectShapeFromObject"

\* the shape it has merged after the step: the one it returns, or the one it
\* keeps while the next allOf member is collected
MergedAfter == IF stack' = Pop THEN ret' ELSE stack'[Len(stack)]

\* the allOf entries from index i on that are schemas
SchemaEntries(allOf, i) == {j \in i..Len(allOf) : SchemaOk(allOf[j])}

\* the allOf entries are taken in list order, the entries that are no schema
\* left out, and the shape is returned when none is left
InListOrder ==
    LET from == IF Top.at = "item" THEN Top.i + 1 ELSE 1
        left == SchemaEntries(Top.allOf, from)
    IN  IF left = {} THEN stack' = Pop
        ELSE /\ Len(stack') = Len(stack) + 1
             /\ stack'[Len(stack)].i = MinOf(left)
             /\ stack'[Len(stack')] = CollectShapeFrame(toSchemaValue(Top.allOf[MinOf(left)]))

\* a name already present keeps its schema, a new name gets the member's
FirstSeenWins(merged, left, right) ==
    /\ DOMAIN merged = DOMAIN left \cup DOMAIN right
    /\ \A name \in DOMAIN left : merged[name] = left[name]
    /\ \A name \in (DOMAIN right) \ DOMAIN left : merged[name] = right[name]

\* C19 as stated: the node's own properties and required list come first, the
\* allOf entries follow in list order; a property name already present keeps
\* its first-seen schema; the merged required list is the concatenation in
\* that order with every later duplicate removed.
C19_AsStated ==
    [][MergingShape =>
          /\ InListOrder
          /\ Top.at = "item" =>
                /\ FirstSeenWins(MergedAfter.properties, Top.properties, ret.properties)
                /\ MergedAfter.required = FirstSeen(Top.required \o ret.required)
          /\ Top.at = "loop" =>
                /\ MergedAfter.properties = Top.properties
                /\ MergedAfter.required = FirstSeen(Top.required)]_vars

\* C19 amended: the node's own properties and required list come first, the
\* allOf entries that are schemas follow in list order; a property name
\* already present keeps its first-seen schema; when an allOf entry is merged
\* the required list becomes the concatenation in that order with the blanks
\* around every name removed, blank names dropped and every later duplicate
\* removed; a node without such an entry keeps its own required list as it
\* is written.
C19_ShapeMerge ==
    [][MergingShape =>
          /\ InListOrder
          /\ Top.at = "item" =>
                /\ FirstSeenWins(MergedAfter.properties, Top.properties, ret.properties)
                /\ MergedAfter.required = FirstSeen(TrimmedNames(Top.required \o ret.required))
          /\ Top.at = "loop" =>
                /\ MergedAfter.properties = Top.properties
                /\ MergedAfter.required = Top.required]_vars

\* Config has merged the inline member and then Base, which had merged its
\* own member: name keeps the schema of Config, id that of the inline member
C19_Witness ==
    /\ pc = "build"
    /\ call.schema = [doc |-> "merge", required |-> <<"name", "id", "name">>, allOf |-> "inline,Base"]
    /\ ret # JNull /\ ret.k = "shape"
    /\ DOMAIN ret.properties = {"name", "base", "id", "extra", "deep"}
    /\ ret.properties["name"] = TypeOnly("string")
    /\ ret.properties["id"] = TypeOnly("string")
    /\ ret.required = <<"name", "id", "extra", "deep">>

-----------------------------------------------------------------------------
(* References with sibling keywords.                                        *)

\* the node a builder method is entered with
EnteredNode == IF Top.fn = "annotateYAMLNode" THEN Top.schema ELSE Top.node

\* buildNode, collectObjectShape or annotateYAMLNode is entered with an object
\* whose reference resolves to an object schema and is not being expanded
ResolvingReference ==
    /\ pc \in {"build", "annotate"} /\ stack # <<>>
    /\ Top.fn \in {"buildNode", "collectObjectShape", "annotateYAMLNode"}
    /\ Top.at = "entry"
    /\ Len(stack) < MaxStack
    /\ IsObject(EnteredNode)
    /\ LET ref == asString(Get(EnteredNode.v, "$ref"))
           target == resolveLocalReference(ExampleDoc, ref)
       IN  /\ ref # ""
           /\ target.ok /\ IsObject(target.value)
           /\ TrimSpace(ref) \notin DOMAIN activeRefs

ReferenceTarget == resolveLocalReference(ExampleDoc, asString(Get(EnteredNode.v, "$ref"))).value

\* the object the method goes on with after the step
ObjectUsed ==
    IF Top.fn = "annotateYAMLNode" THEN stack'[Len(stack)].resolved
    ELSE stack'[Len(stack')].node

\* C20: the object used in place of a node with a resolvable reference has the
\* keys of the node and of the target other than the node's $ref; a key the
\* node declares has the node's value, any other key the target's; a $ref is
\* among them only when the target has one, and it is the target's.
C20_SiblingOverride ==
    [][ResolvingReference =>
          LET own == EnteredNode.v
              target == ReferenceTarget.v
              used == ObjectUsed
          IN  /\ used.k = "obj"
              /\ DOMAIN used.v = ((DOMAIN own) \ {"$ref"}) \cup DOMAIN target
              /\ \A key \in (DOMAIN used.v) \ {"$ref"} :
                    used.v[key] = IF key \in DOMAIN own THEN own[key] ELSE target[key]
              /\ "$ref" \in DOMAIN used.v => used.v["$ref"] = target["$ref"]]_vars

\* property base of Config, a reference to Base with a title and a required
\* list beside it, is being built from the merged object
C20_Witness ==
    /\ pc = "build"
    /\ call.schema.doc = "merge"
    /\ Len(stack) > 1
    /\ Top.fn = "buildNode" /\ Top.at = "entry"
    /\ stack[Len(stack) - 1].fn = "buildNode"
    /\ stack[Len(stack) - 1].release = "#/$defs/Base"
    /\ DOMAIN Top.node.v = {"title", "required", "properties", "allOf"}
    /\ Top.node.v["required"] = ListOf(<<"name">>)
    /\ Top.node.v["title"] = JStr("Override")

-----------------------------------------------------------------------------
(* JSON pointers: resolveJSONPointer and decodeJSONPointerToken applied to  *)
(* documents and references drawn from bounded sets.                        *)

\* a document with nested objects and arrays, scalars, and keys that need
\* escaping in a pointer
PointerObject ==
    JObj(("a" :> JObj(("b" :> JNum(7)) @@ ("0" :> JStr("zero"))))
      @@ ("l" :> JArr(<<JStr("x"), JObj("k" :> JBool(TRUE)), JArr(<<JNum(1), JNum(2)>>)>>))
      @@ ("s" :> JStr("scalar"))
      @@ ("1" :> JNum(1))
      @@ ("" :> JStr("empty key"))
      @@ ("a/b" :> JStr("slash"))
      @@ ("m~n" :> JStr("tilde"))
      @@ ("~1" :> JStr("tilde one"))
      @@ ("/" :> JStr("slash only")))

PointerRoots ==
    {PointerObject, JArr(<<JStr("first"), JObj("k" :> JNum(2))>>), JStr("scalar"), JNull}

PointerTokens ==
    {"a", "b", "l", "k", "s", "0", "1", "2", "3", "-1", "+1", "01", "1x", "",
     "~01", "~1", "a~1b", "m~0n", "~0", "a/b"}

\* the longest token list of a drawn reference
MaxTokens == 2

TokenLists ==
    UNION {[1..n -> PointerTokens \ {"a/b"}] : n \in 1..MaxTokens}
    \cup {<<"l", "2", "1">>, <<"l", "1", "k">>, <<"l", "1", "k", "x">>, <<"l", "2", "2">>}

\* references that are pointers into the document, with the tokens they are
\* made of, and references that are none
PointerRefs ==
    {[ref |-> "#/" \o Join(ts, "/"), pointer |-> TRUE, tokens |-> ts] : ts \in TokenLists}
    \cup {[ref |-> " #/" \o Join(ts, "/") \o "\n", pointer |-> TRUE, tokens |-> ts] :
            ts \in {<<"a", "b">>, <<"l", "1">>, <<"zz">>}}
    \cup {[ref |-> r, pointer |-> TRUE, tokens |-> <<>>] : r \in {"#", " # ", "#\n"}}
    \cup {[ref |-> r, pointer |-> FALSE, tokens |-> <<>>] :
            r \in {"", " ", "a", "/a", "a/b", "#a", "##", "# /a", "other.json#/a", "/", "#a/b", "s"}}

PointerCalls ==
    {[fn |-> "resolveJSONPointer", root |-> root, ref |-> r.ref, pointer |-> r.pointer,
      tokens |-> r.tokens] : root \in PointerRoots, r \in PointerRefs}
    \cup {[fn |-> "decodeJSONPointerToken", token |-> t] :
            t \in PointerTokens \cup {"~1~0", "~0~1", "~~1", "~10", "~001", "~", "~2", "x~1y~1z",
                                     "~0~0", "~1~1"}}

InitPointer ==
    /\ pc = "call"
    /\ call \in PointerCalls
    /\ result = JNull
    /\ err = ""
    /\ previous = JNull
    /\ parked = Nobody
    /\ runner = NoRunner
    /\ BuilderIdle
    /\ RenderIdle

CallResolveJSONPointer ==
    /\ pc = "call"
    /\ call.fn = "resolveJSONPointer"
    /\ pc' = "done"
    /\ result' = resolveJSONPointer(call.root, call.ref)
    /\ UNCHANGED <<call, err, previous, parked, runner, builderVars, renderVars>>

CallDecodeJSONPointerToken ==
    /\ pc = "call"
    /\ call.fn = "decodeJSONPointerToken"
    /\ pc' = "done"
    /\ result' = decodeJSONPointerToken(call.token)
    /\ UNCHANGED <<call, err, previous, parked, runner, builderVars, renderVars>>

NextPointer == CallResolveJSONPointer \/ CallDecodeJSONPointerToken

SpecPointer == InitPointer /\ [][NextPointer]_vars

\* what the drawn tokens decode to, written out
DecodedToken(token) ==
    CASE token = "~01" -> "~1"
      [] token = "~1" -> "/"
      [] token = "a~1b" -> "a/b"
      [] token = "m~0n" -> "m~n"
      [] token = "~0" -> "~"
      [] OTHER -> token

\* the array index a drawn token stands for, written out; -1 for none
IndexOfToken(token) ==
    CASE token = "0" -> 0
      [] token = "1" -> 1
      [] token = "2" -> 2
      [] token = "3" -> 3
      [] token \in {"+1", "01"} -> 1
      [] OTHER -> -1

\* the values the token lists reach from a value: none, or the one value
RECURSIVE Reached(_, _)
Reached(value, tokens) ==
    IF tokens = <<>> THEN {value}
    ELSE LET key == DecodedToken(Head(tokens))
             index == IndexOfToken(Head(tokens))
         IN  IF value.k = "obj"
             THEN IF key \in DOMAIN value.v THEN Reached(value.v[key], Tail(tokens)) ELSE {}
             ELSE IF value.k = "arr"
             THEN IF index >= 0 /\ index < Len(value.v)
                  THEN Reached(value.v[index + 1], Tail(tokens)) ELSE {}
             ELSE {}

PointerDone == pc = "done" /\ call.fn = "resolveJSONPointer"

\* C21: resolveJSONPointer returns the root for #; not found for a reference
\* that is neither # nor begins with #/; otherwise it follows the tokens from
\* the root, each decoded token an object key or a decimal index within the
\* array, and returns not found when a key is missing, an index is no number
\* or out of range or the value is a scalar, found with the value reached
\* when every token matched.
C21_Pointer ==
    PointerDone =>
        /\ result.ok \in BOOLEAN
        /\ ~call.pointer => result = NotFound
        /\ call.pointer /\ call.tokens = <<>> => result = Found(call.root)
        /\ call.pointer /\ call.tokens # <<>> =>
              LET reached == Reached(call.root, call.tokens)
              IN  IF reached = {} THEN result = NotFound
                  ELSE result.ok /\ reached = {result.value}

\* an element of an array inside an array has been reached
C21_Witness ==
    /\ PointerDone
    /\ call.root = PointerObject
    /\ call.ref = "#/l/2/1"
    /\ result = Found(JNum(2))

DecodeDone == pc = "done" /\ call.fn = "decodeJSONPointerToken"

\* C22: decoding replaces every ~1 by / first and every ~0 by ~ second, so
\* that a ~ made by the second replacement is never taken for the start of an
\* escape: ~01 decodes to ~1; the keys a/b, m~n, ~1 and / of the document are
\* reached through their escaped tokens.
C22_Decoding ==
    /\ DecodeDone =>
          /\ result = ReplaceAll(ReplaceAll(call.token, "~1", "/"), "~0", "~")
          /\ call.token = "~01" => result = "~1"
          /\ call.token = "~001" => result = "~01"
          /\ call.token = "~0~1" => result = "~/"
          /\ call.token = "~10" => result = "/0"
          /\ call.token = "~1" => result = "/"
          /\ call.token = "~0" => result = "~"
          /\ call.token = "x~1y~1z" => result = "x/y/z"
          /\ call.token = "a/b" => result = "a/b"
    /\ PointerDone /\ call.root = PointerObject =>
          /\ call.ref = "#/a~1b" => result = Found(JStr("slash"))
          /\ call.ref = "#/m~0n" => result = Found(JStr("tilde"))
          /\ call.ref = "#/~01" => result = Found(JStr("tilde one"))
          /\ call.ref = "#/~1" => result = Found(JStr("slash only"))

C22_Witness ==
    /\ DecodeDone
    /\ call.token = "~01"
    /\ result = "~1"

-----------------------------------------------------------------------------
(* The value of one node: explicit values, arrays, objects, compositions    *)
(* and placeholders.                                                        *)

ValueCalls ==
    {[fn |-> "GenerateExampleJSON", mode |-> "all", schema |-> d] : d \in ValueDocs \cup TypedDocs}
    \cup {[fn |-> "GenerateExampleYAML", mode |-> m, schema |-> [doc |-> "fixture"]] :
            m \in {"all", "broken"}}
    \cup {[fn |-> "GenerateExampleYAML", mode |-> "all", schema |-> d] : d \in NotedDocs}
    \cup {[fn |-> "GenerateExampleJSON", mode |-> "required", schema |-> d] :
            d \in {[doc |-> "number"],
                   [doc |-> "merge", required |-> <<"name">>, allOf |-> "inline,Base"]}}

InitValue ==
    /\ pc = "call"
    /\ call \in ValueCalls
    /\ result = JNull
    /\ err = ""
    /\ previous = JNull
    /\ parked = Nobody
    /\ runner = NoRunner
    /\ BuilderIdle
    /\ RenderIdle

SpecValue == InitValue /\ [][NextExample]_vars

ValueDone == pc = "done" /\ call.fn = "GenerateExampleJSON" /\ call.schema.doc = "value"

\* the explicit value of a node of the value documents: the keyword it comes
\* from and its kind, "absent" when there is none
ExplicitSource(d) ==
    IF d.default # "absent" THEN [keyword |-> "default", kind |-> d.default]
    ELSE IF d.examples \in {"scalar", "array"} THEN [keyword |-> "examples", kind |-> d.examples]
    ELSE IF d.example # "absent" THEN [keyword |-> "example", kind |-> d.example]
    ELSE [keyword |-> "", kind |-> "absent"]

\* the value a keyword of the value documents names
NamedValue(keyword, kind) == IF kind = "array" THEN JArr(<<JStr(keyword)>>) ELSE JStr(keyword)

ArrayShapes == {"typeArray", "items", "badItems", "prefixItems"}

\* C23: the sequence of an array node is its explicit value (default, else
\* the first of examples, else example) when that is an array; else const,
\* else the first enum value, when it is an array; else one element for every
\* prefixItems member; else one element built from items; else empty.
C23_ArrayPrecedence ==
    ValueDone /\ call.schema.shape \in ArrayShapes =>
        LET d == call.schema
            explicit == ExplicitSource(d)
        IN  result =
               IF explicit.kind = "array" THEN NamedValue(explicit.keyword, "array")
               ELSE IF d.const = "array" THEN NamedValue("const", "array")
               ELSE IF d.enum = "array" THEN NamedValue("enum", "array")
               ELSE IF d.shape = "prefixItems"
               THEN JArr(<<JStr("<string>"), JNull, JBool(FALSE)>>)
               ELSE IF d.shape = "items" THEN JArr(<<JNum(0)>>)
               ELSE JArr(<<>>)

\* a node with prefixItems and items whose default and const are scalars and
\* whose first enum value is an array
C23_Witness ==
    /\ ValueDone
    /\ call.schema.shape = "prefixItems"
    /\ call.schema.default = "scalar"
    /\ call.schema.examples = "array"
    /\ call.schema.const = "scalar"
    /\ call.schema.enum = "array"
    /\ result = JArr(<<JStr("enum")>>)

TypedDone == pc = "done" /\ call.fn = "GenerateExampleJSON" /\ call.schema.doc = "typed"

\* the type a type label of the typed documents names: the type string, or
\* the first entry of the type array that is a string other than null, in
\* lower case; "" when there is none
TypeNamed(label) ==
    CASE label = "String" -> "string"
      [] label = "NUMBER" -> "number"
      [] label = "[null,Boolean]" -> "boolean"
      [] label = "[0,string]" -> "string"
      [] label = "[null]" -> "null"
      [] label \in {"absent", "[]", "0"} -> ""
      [] OTHER -> label

\* the placeholder of a type, JNull for a type that has none
Placeholder(type) ==
    CASE type = "string" -> JStr("<string>")
      [] type \in {"number", "integer"} -> JNum(0)
      [] type = "boolean" -> JBool(FALSE)
      [] OTHER -> JNull

\* the value of the first schema member of a composition label of the typed
\* documents, as a set: empty when the label has no schema member
BranchValue(label) ==
    CASE label \in {"absent", "[]", "[0]"} -> {}
      [] label = "[0,string,integer]" -> {JStr("<string>")}
      [] label = "[integer]" -> {JNum(0)}
      [] label = "[boolean]" -> {JBool(FALSE)}
      [] label \in {"[true,string]", "[#,string]"} -> {JNull}

\* the value of the first branch of oneOf, then anyOf, then allOf
FirstBranch(d) ==
    IF BranchValue(d.oneOf) # {} THEN BranchValue(d.oneOf)
    ELSE IF BranchValue(d.anyOf) # {} THEN BranchValue(d.anyOf)
    ELSE BranchValue(d.allOf)

ScalarShapes == {"string", "untyped"}

\* C24: the value of a node that is neither an object nor an array is its
\* default if present, else the first of examples, else example; else const;
\* else the first of enum; else the value of the first branch of oneOf, then
\* anyOf, then allOf; else the placeholder of its type, the type read without
\* regard to case from the type string or the first non-null entry of the
\* type array; else null.
C24_ScalarPrecedence ==
    /\ ValueDone /\ call.schema.shape \in ScalarShapes =>
          LET d == call.schema
              explicit == ExplicitSource(d)
          IN  result =
                 IF explicit.kind # "absent" THEN NamedValue(explicit.keyword, explicit.kind)
                 ELSE IF d.const # "absent" THEN NamedValue("const", d.const)
                 ELSE IF d.enum \in {"scalar", "array"} THEN NamedValue("enum", d.enum)
                 ELSE IF d.shape = "string" THEN JStr("<string>")
                 ELSE JNull
    /\ TypedDone /\ call.schema.allOf # "[properties]"
                 /\ TypeNamed(call.schema.type) \notin {"object", "array"} =>
          LET d == call.schema
          IN  result =
                 IF d.enum = "scalar" THEN NamedValue("enum", "scalar")
                 ELSE IF FirstBranch(d) # {} THEN CHOOSE v \in FirstBranch(d) : TRUE
                 ELSE Placeholder(TypeNamed(d.type))

\* a node without explicit values and branches whose type array names null
\* first and Boolean second
C24_Witness ==
    /\ TypedDone
    /\ call.schema = [doc |-> "typed", type |-> "[null,Boolean]", oneOf |-> "[0]",
                      anyOf |-> "absent", allOf |-> "[0]", enum |-> "absent"]
    /\ result = JBool(FALSE)

-----------------------------------------------------------------------------
(* schemaKeyComment on drawn titles and descriptions.                      *)

\* values of title and description: no string, blank strings, padded
\* strings, and strings of several lines with blank lines around and inside
CommentValues ==
    {JNull, JNum(0), JStr(""), JStr("  "), JStr("Name"), JStr(" Name "), JStr("Text"),
     JStr("\nText\n"), JStr("Name\n\nMore"), JStr("Name\n \nMore")}

\* property schemas with title and description present or not, and a boolean
\* schema
CommentSchemas ==
    {JObj(f) : f \in UNION {[keys -> CommentValues] : keys \in SUBSET {"title", "description"}}}
    \cup {JBool(TRUE)}

CommentCalls == {[fn |-> "schemaKeyComment", schema |-> schema] : schema \in CommentSchemas}

InitComment ==
    /\ pc = "call"
    /\ call \in CommentCalls
    /\ result = JNull
    /\ err = ""
    /\ previous = JNull
    /\ parked = Nobody
    /\ runner = NoRunner
    /\ BuilderIdle
    /\ RenderIdle

CallSchemaKeyComment ==
    /\ pc = "call"
    /\ call.fn = "schemaKeyComment"
    /\ pc' = "done"
    /\ result' = JStr(schemaKeyComment(call.schema))
    /\ UNCHANGED <<call, err, previous, parked, runner, builderVars, renderVars>>

NextComment == CallSchemaKeyComment

SpecComment == InitComment /\ [][NextComment]_vars

\* the drawn values with the surrounding white space removed, written out
TrimmedText(value) ==
    CASE value \in {JStr("Name"), JStr(" Name ")} -> "Name"
      [] value \in {JStr("Text"), JStr("\nText\n")} -> "Text"
      [] value = JStr("Name\n\nMore") -> "Name\n\nMore"
      [] value = JStr("Name\n \nMore") -> "Name\n \nMore"
      [] OTHER -> ""

\* the lines of the drawn values that are not blank, written out
FilledLines(value) ==
    CASE value \in {JStr("Name"), JStr(" Name ")} -> <<"Name">>
      [] value \in {JStr("Text"), JStr("\nText\n")} -> <<"Text">>
      [] value \in {JStr("Name\n\nMore"), JStr("Name\n \nMore")} -> <<"Name", "More">>
      [] OTHER -> <<>>

CommentDone == pc = "done" /\ call.fn = "schemaKeyComment"

\* title and description of the schema of the call, JNull when not there
TitleOf(schema) == IF IsObject(schema) THEN Get(schema.v, "title") ELSE JNull
DescriptionOf(schema) == IF IsObject(schema) THEN Get(schema.v, "description") ELSE JNull

\* C25 as stated: when the trimmed title and the trimmed description are both
\* there and differ, the comment is the title, an empty line, the description.
C25_AsStated ==
    CommentDone =>
        LET title == TrimmedText(TitleOf(call.schema))
            description == TrimmedText(DescriptionOf(call.schema))
        IN  title # "" /\ description # "" /\ title # description =>
                result = JStr(title \o "\n\n" \o description)

\* C25: the comment of a key is built from the trimmed title and description
\* of the property schema: none when both are empty, the title alone when the
\* description is empty, the description alone when the title is empty, one
\* copy when they are equal, and the title, a line break, the description
\* when both are there and differ; every blank line is dropped from it, so it
\* has no blank line at its start, at its end or inside.
C25_Comment ==
    CommentDone =>
        LET title == TitleOf(call.schema)
            description == DescriptionOf(call.schema)
        IN  /\ result =
                 JStr(IF TrimmedText(title) = "" /\ TrimmedText(description) = "" THEN ""
                      ELSE IF TrimmedText(title) = "" THEN Join(FilledLines(description), "\n")
                      ELSE IF TrimmedText(description) = "" THEN Join(FilledLines(title), "\n")
                      ELSE IF TrimmedText(title) = TrimmedText(description)
                             THEN Join(FilledLines(title), "\n")
                      ELSE Join(FilledLines(title) \o FilledLines(description), "\n"))
            /\ result.v # "" => \A line \in Range(Split(result.v, "\n")) : TrimSpace(line) # ""

\* a padded title of one line and a description of two lines with a blank
\* line between them give three lines
C25_Witness ==
    /\ CommentDone
    /\ TitleOf(call.schema) = JStr("\nText\n")
    /\ DescriptionOf(call.schema) = JStr("Name\n \nMore")
    /\ result = JStr("Text\nName\nMore")

NotedDone == pc = "done" /\ call.fn = "GenerateExampleYAML" /\ call.schema.doc = "noted"

\* the example of the documents with titled properties
NotedExample(d) ==
    LET element == JObj("a" :> JStr("<string>"))
    IN  JObj(("list" :> JArr(IF d.list = "items" THEN <<element>> ELSE <<element, element>>))
          @@ ("own" :> JStr("<string>"))
          @@ ("shared" :> JStr("<string>")))

\* the comment of the key node a path of Content indices leads to: the keys
\* of the root mapping are list (1), own (3) and shared (5), and the elements
\* of list, the value at 2, are mappings with the one key a
CommentAt(path) == NodeAt(rootNode, path).HeadComment

\* C26 as stated: every key of every mapping of the example, a key of an
\* allOf member's properties included, carries the title of the property
\* schema its value was built from, and every element of a sequence is
\* annotated by the items or prefixItems schema it was built from.
C26_AsStated ==
    NotedDone =>
        /\ CommentAt(<<3>>) = "Own"
        /\ CommentAt(<<5>>) = "Shared"
        /\ CommentAt(<<2, 1, 1>>) = "First"
        /\ call.schema.list = "prefixItems" => CommentAt(<<2, 2, 1>>) = "Second"

\* C26, what the annotation does: the example has every merged key, and a key
\* carries the comment of its property schema when the resolved node declares
\* it among its own properties, and none when only an allOf member declares
\* it; every element of a sequence is annotated by the items schema, or by
\* the first schema of prefixItems when items is none.
C26_OwnProperties ==
    NotedDone =>
        /\ result = NotedExample(call.schema)
        /\ CommentAt(<<3>>) = "Own"
        /\ CommentAt(<<5>>) = (IF call.schema.shared = "own" THEN "Shared" ELSE "")
        /\ CommentAt(<<2, 1, 1>>) = "First"
        /\ call.schema.list = "prefixItems" => CommentAt(<<2, 2, 1>>) = "First"

\* shared comes from Base through allOf and list has two prefixItems
C26_Witness ==
    /\ NotedDone
    /\ call.schema = [doc |-> "noted", shared |-> "allOf(Base)", list |-> "prefixItems"]
    /\ NodeAt(rootNode, <<5>>).Value = "shared"
    /\ CommentAt(<<5>>) = ""
    /\ CommentAt(<<2, 2, 1>>) = "First"

-----------------------------------------------------------------------------
(* definitionEdges on drawn definitions.                                   *)

EdgeKeywords == CompositionKeywords \cup SamePathKeywords \cup IndexedKeywords \cup NestedKeywords

\* a schema that holds the schema inner under a keyword: composition
\* keywords hold a list with a member that is no schema and inner twice,
\* prefixItems a list, properties and patternProperties a map with the key k
Under(keyword, inner) ==
    CASE keyword = "none" -> inner
      [] keyword \in CompositionKeywords -> JObj(keyword :> JArr(<<JNum(0), inner, inner>>))
      [] keyword = "prefixItems" -> JObj(keyword :> JArr(<<inner>>))
      [] keyword \in NestedKeywords -> JObj(keyword :> JObj(("k" :> inner) @@ ("n" :> JNum(1))))
      [] OTHER -> JObj(keyword :> inner)

\* a definition with the property p, which refers to T under two keywords
\* (and beside them when direct), and the property q, which refers to U and
\* holds a reference to no definition
EdgeNode(first, second, direct) ==
    LET inner == Under(first, Under(second, Ref("#/$defs/T")))
    IN  ObjectWith(("p" :> (IF direct THEN JObj(inner.v @@ ("$ref" :> JStr("#/definitions/T")))
                            ELSE inner))
                @@ ("q" :> JObj(("$ref" :> JStr("#/$defs/U"))
                             @@ ("not" :> Ref("https://example.com/schema.json")))))

PathParts == {"", "p", "p.[]", "k", "[]"}

EdgeCalls ==
    {[fn |-> "definitionEdges", first |-> first, second |-> second, direct |-> direct] :
        first \in EdgeKeywords \cup {"none"}, second \in EdgeKeywords \cup {"none"},
        direct \in BOOLEAN}
    \cup {[fn |-> "appendPath", base |-> base, segment |-> segment] :
            base \in PathParts, segment \in PathParts}

InitEdges ==
    /\ pc = "call"
    /\ call \in EdgeCalls
    /\ result = JNull
    /\ err = ""
    /\ previous = JNull
    /\ parked = Nobody
    /\ runner = NoRunner
    /\ BuilderIdle
    /\ RenderIdle

CallDefinitionEdges ==
    /\ pc = "call"
    /\ call.fn = "definitionEdges"
    /\ LET node == EdgeNode(call.first, call.second, call.direct)
       IN  \E iter \in RangeOrders(EdgeMap(node)) : result' = definitionEdges(node, iter)
    /\ pc' = "done"
    /\ UNCHANGED <<call, err, previous, parked, runner, builderVars, renderVars>>

CallAppendPath ==
    /\ pc = "call"
    /\ call.fn = "appendPath"
    /\ pc' = "done"
    /\ result' = JStr(appendPath(call.base, call.segment))
    /\ UNCHANGED <<call, err, previous, parked, runner, builderVars, renderVars>>

NextEdges == CallDefinitionEdges \/ CallAppendPath

SpecEdges == InitEdges /\ [][NextEdges]_vars

\* the segment a keyword adds to the path, "" for none
SegmentOf(keyword) ==
    CASE keyword \in {"items", "prefixItems", "contains", "additionalItems", "unevaluatedItems",
                      "additionalProperties", "unevaluatedProperties"} -> "[]"
      [] keyword \in {"properties", "patternProperties"} -> "k"
      [] keyword \in {"allOf", "anyOf", "oneOf", "if", "then", "else", "not", "contentSchema",
                      "none"} -> ""

\* the path of the reference to T under the two keywords of the property p
PathUnder(first, second) ==
    Join(SelectSeq(<<"p", SegmentOf(first), SegmentOf(second)>>, LAMBDA part : part # ""), ".")

EdgesDone == pc = "done" /\ call.fn = "definitionEdges"
JoinDone == pc = "done" /\ call.fn = "appendPath"

\* C27: the edges of a definition start at each of its properties with the
\* property name as path: a reference to a definition is an edge with the
\* current path; allOf, anyOf, oneOf, if, then, else, not and contentSchema
\* keep the path, items, prefixItems, contains, additionalItems,
\* unevaluatedItems, additionalProperties and unevaluatedProperties add [],
\* properties and patternProperties add the nested key. Joining gives the
\* segment for an empty base, the base for an empty segment, and else the
\* base, a dot, the segment. Every distinct pair of path and target is one
\* edge.
C27_Edges ==
    /\ EdgesDone =>
          LET under == PathUnder(call.first, call.second)
          IN  result = (IF call.direct /\ under # "p" THEN <<[Path |-> "p", Target |-> "T"]>>
                        ELSE <<>>)
                       \o <<[Path |-> under, Target |-> "T"], [Path |-> "q", Target |-> "U"]>>
    /\ JoinDone =>
          result = JStr(IF call.base = "" THEN call.segment
                        ELSE IF call.segment = "" THEN call.base
                        ELSE call.base \o "." \o call.segment)

\* a reference under patternProperties under additionalProperties, and one
\* beside them
C27_Witness ==
    /\ EdgesDone
    /\ call.first = "additionalProperties"
    /\ call.second = "patternProperties"
    /\ call.direct
    /\ result = <<[Path |-> "p", Target |-> "T"], [Path |-> "p.[].k", Target |-> "T"],
                  [Path |-> "q", Target |-> "U"]>>

ObjectShapes == {"object", "properties", "required"}

\* C29: a node with the type object, or with properties or a required list
\* after its allOf members are merged, is built as an object from its merged
\* properties whatever default, examples, example, const and enum it has, and
\* as the empty object when it has no properties.
C29_ObjectFirst ==
    /\ ValueDone /\ call.schema.shape \in ObjectShapes =>
          result = (IF call.schema.shape = "properties" THEN JObj("p" :> JStr("<string>"))
                    ELSE JObj(EmptyMap))
    /\ TypedDone /\ call.schema.allOf = "[properties]" => result = JObj("q" :> JNum(0))

\* a node with a required list, no properties and every value keyword
C29_Witness ==
    /\ ValueDone
    /\ call.schema = [doc |-> "value", shape |-> "required", default |-> "scalar",
                      examples |-> "array", example |-> "scalar", const |-> "array",
                      enum |-> "scalar"]
    /\ result = JObj(EmptyMap)

\* the composition lists of the typed documents that hold a schema
WithBranch(d) ==
    \/ d.oneOf \in {"[0,string,integer]", "[true,string]", "[#,string]"}
    \/ d.anyOf = "[integer]"
    \/ d.allOf = "[boolean]"

\* C30: a node that is no object and no array, has no explicit value, const or
\* enum, and has a schema among the members of oneOf, anyOf or allOf, gets
\* the value of the first member that is a schema of the first of oneOf,
\* anyOf, allOf that has one, also when that value is null because the member
\* is a boolean schema or a reference refused as active; later members, later
\* keywords and the placeholder of its own type are not used.
C30_CompositionFallback ==
    TypedDone /\ call.schema.enum = "absent" /\ call.schema.allOf # "[properties]"
              /\ WithBranch(call.schema) =>
        LET d == call.schema
        IN  result =
               CASE d.oneOf \in {"[true,string]", "[#,string]"} -> JNull
                 [] d.oneOf = "[0,string,integer]" -> JStr("<string>")
                 [] d.anyOf = "[integer]" -> JNum(0)
                 [] OTHER -> JBool(FALSE)

\* a boolean schema first in oneOf, on a node of type string with anyOf and
\* allOf members
C30_Witness ==
    /\ TypedDone
    /\ call.schema = [doc |-> "typed", type |-> "String", oneOf |-> "[true,string]",
                      anyOf |-> "[integer]", allOf |-> "[boolean]", enum |-> "absent"]
    /\ result = JNull

=============================================================================
